---- MODULE Spec2Model ----
(***************************************************************************)
(* Model of the provider-hetzner convergence controllers.                  *)
(*                                                                         *)
(* One managed resource instance of one kind is followed through its       *)
(* reconcile passes.  Every handler (Observe / Create / Update / Delete of *)
(* a kind) is one action: it computes the ordered list of provider calls   *)
(* the Go code issues for the current desired spec and persisted status,   *)
(* runs that list up to the first failing call, applies the accepted       *)
(* calls to the provider-side state and persists the status exactly where  *)
(* the code calls kube.Status().Update.                                    *)
(***************************************************************************)
EXTENDS Integers, Sequences, FiniteSets, TLC

VARIABLES
    kind,        \* resource kind of the instance (fixed after Init)
    sched,       \* who invokes the handlers: "reconciler" or "direct"
    spec,        \* cr.Spec.ForProvider, the desired parameters
    atProvider,  \* cr.Status.AtProvider as persisted: [ID, present, params]
    prov,        \* provider side: [next, res] (live resources by id)
    deleting,    \* the instance is marked for removal
    next,        \* handler the reconciler invokes next
    last,        \* record of the last handler invocation
    created,     \* history: a provider create succeeded, no successful delete since
    updClean,    \* history: last handler was a successful Update, spec unchanged since
    edits,       \* number of edits the caller has made to the desired spec
    pass,        \* a pass that awaits actions: [plan, i, pc, calls, err]
    await,       \* the running WaitForActionCompletion: [handle, elapsed, polls, lastPoll]
    action,      \* the provider's action: [Status, ErrorCode, ErrorMessage]
    ctx,         \* the context of the pass: [cancelled, since, calls]
    fn,          \* conversion under study
    arg,         \* its input
    result,      \* its result
    keys,        \* provider side: the uploaded SSH keys, by id
    upsert       \* the UpsertSSHKeys call of each running Server Create

controllerVars ==
    <<kind, sched, spec, atProvider, prov, deleting, next, last, created, updClean, edits>>
awaiterVars == <<pass, await, action, ctx>>
convVars == <<fn, arg, result>>
upsertVars == <<keys, upsert>>

vars == <<controllerVars, awaiterVars, convVars, upsertVars>>

\* no Server Create is uploading keys
UpsertIdle == keys = <<>> /\ upsert = <<>>

(***************************************************************************)
(* Bounds                                                                  *)
(***************************************************************************)
MaxCreates == 2      \* provider creates followed per behaviour
MaxSize    == 2      \* volume sizes 1..MaxSize
MaxEdits   == 1      \* edits of the desired spec followed per behaviour
MaxMissing == 1      \* declared references that do not exist in one Create pass

(***************************************************************************)
(* Absent values                                                           *)
(***************************************************************************)
NoID   == 0          \* zero value of AtProvider.ID (int64)
NilRef == -1         \* nil *int64
NilStr == "<nil>"    \* nil *string

Kinds == {"PlacementGroup", "Volume", "Server", "Network", "Firewall", "LoadBalancer"}

(***************************************************************************)
(* Labels: pkg/hcloud/labels.go                                            *)
(***************************************************************************)
GeneratedDateTime == "crossplane.io/generated-at"
ProviderLabel     == "crossplane.io/provider"
Provider          == "provider-hetzner"

Digits == <<"0", "1", "2", "3", "4", "5", "6", "7", "8", "9">>

\* strconv.FormatInt(n, 10) for the clock values of the model
RECURSIVE FormatInt(_)
FormatInt(n) ==
    IF n < 10 THEN Digits[n + 1]
    ELSE FormatInt(n \div 10) \o Digits[(n % 10) + 1]

NoLabels == [k \in {} |-> ""]

\* faulty variant: the system entries are written after the caller's entries
ApplyDefaultLabels_SystemWins(input, now) ==
    LET sys == [k \in {ProviderLabel, GeneratedDateTime} |->
                   IF k = ProviderLabel THEN Provider ELSE FormatInt(now)]
    IN  [k \in DOMAIN sys \cup DOMAIN input |->
            IF k \in DOMAIN sys THEN sys[k] ELSE input[k]]

\* labels := {system entries}; for k, v := range input { labels[k] = v }
ApplyDefaultLabels(input, now) ==
    LET sys == [k \in {ProviderLabel, GeneratedDateTime} |->
                   IF k = ProviderLabel THEN Provider ELSE FormatInt(now)]
    IN  [k \in DOMAIN sys \cup DOMAIN input |->
            IF k \in DOMAIN input THEN input[k] ELSE sys[k]]

\* caller-declared label maps (a nil map is the empty map)
LabelMaps ==
    { NoLabels,
      [k \in {"team"} |-> "x"],
      [k \in {"team", ProviderLabel} |-> IF k = "team" THEN "x" ELSE "other"] }

\* time.Now().Unix() as the passes read it; no branch depends on it
Now == 1700000000
Clock == {Now}

(***************************************************************************)
(* Errors: a nil error is <<>>; errors.Wrap(err, msg) prepends msg and     *)
(* returns nil when err is nil (github.com/pkg/errors).                    *)
(***************************************************************************)
NoErr == <<>>
Wrap(err, msg) == IF err = NoErr THEN NoErr ELSE <<msg>> \o err
PanicErr == <<"panic">>

(***************************************************************************)
(* Provider calls of one pass.                                             *)
(*   step: what the code is about to call                                  *)
(*     c     name of the SDK call                                          *)
(*     a     argument that matters (labels, size, port, ...)               *)
(*     async the call returns an action that the code awaits               *)
(*     miss  a lookup that answers "not found" (nil, nil)                  *)
(*     w     message wrapped around a failure of the call                  *)
(*     ww    message wrapped around a failure of the await                 *)
(*     wn    error returned when the lookup answers not found              *)
(*   call: what happened                                                   *)
(*     r     "ok" | "nil" | "err"                                          *)
(*     aw    "none" | "success" | "error" | "timeout"                      *)
(***************************************************************************)
Mutate(c, a, w) ==
    [c |-> c, a |-> a, async |-> FALSE, miss |-> FALSE, stop |-> FALSE,
     w |-> w, ww |-> <<>>, wn |-> <<>>]
Async(c, a, w, ww) ==
    [c |-> c, a |-> a, async |-> TRUE, miss |-> FALSE, stop |-> FALSE,
     w |-> w, ww |-> ww, wn |-> <<>>]
\* a lookup whose "not found" answer makes the handler return wn
Lookup(c, a, miss, w, wn) ==
    [c |-> c, a |-> a, async |-> FALSE, miss |-> miss, stop |-> TRUE,
     w |-> w, ww |-> <<>>, wn |-> wn]
\* a lookup whose "not found" answer is not checked: the handler goes on
LookupUnchecked(c, a, miss, w) ==
    [c |-> c, a |-> a, async |-> FALSE, miss |-> miss, stop |-> FALSE,
     w |-> w, ww |-> <<>>, wn |-> <<>>]
\* the handler returns err here without calling the provider
Return(err) ==
    [c |-> "return", a |-> 0, async |-> FALSE, miss |-> FALSE, stop |-> TRUE,
     w |-> <<>>, ww |-> <<>>, wn |-> err]
\* a nil pointer dereference between two calls
PanicStep == Return(PanicErr)

Call(s, r, aw) == [c |-> s.c, a |-> s.a, r |-> r, aw |-> aw]

FailModes == {"call", "error", "timeout"}

AwaitCause(fm) ==
    IF fm = "error" THEN <<"action error">> ELSE <<"action timed out">>

\* Runs plan[i..]: step f fails (f = 0: none does) in mode fm.
RECURSIVE Exec(_, _, _, _)
Exec(plan, i, f, fm) ==
    IF i > Len(plan) THEN [calls |-> <<>>, err |-> NoErr]
    ELSE LET s == plan[i] IN
         IF s.c = "return" THEN [calls |-> <<>>, err |-> s.wn]
         ELSE IF i = f THEN
             IF fm = "call" \/ ~s.async
             THEN [calls |-> <<Call(s, "err", "none")>>, err |-> s.w \o <<"api error">>]
             ELSE [calls |-> <<Call(s, "ok", fm)>>, err |-> s.ww \o AwaitCause(fm)]
         ELSE IF s.miss /\ s.stop
         THEN [calls |-> <<Call(s, "nil", "none")>>, err |-> s.wn]
         ELSE LET rest == Exec(plan, i + 1, f, fm)
                  r    == IF s.miss THEN "nil" ELSE "ok"
              IN  [calls |-> <<Call(s, r, IF s.async THEN "success" ELSE "none")>> \o rest.calls,
                   err   |-> rest.err]

\* number of steps of plan that can run: up to the first return or stopping miss
RECURSIVE Reach(_, _)
Reach(plan, i) ==
    IF i > Len(plan) THEN Len(plan)
    ELSE IF plan[i].c = "return" THEN i - 1
    ELSE IF plan[i].miss /\ plan[i].stop THEN i
    ELSE Reach(plan, i + 1)

\* the failure inputs that make sense for a plan
FailChoice(plan, f, fm) ==
    /\ f \in 0..Reach(plan, 1)
    /\ fm \in FailModes
    /\ f = 0 => fm = "call"
    /\ (f > 0 /\ ~plan[f].async) => fm = "call"

ReadCalls == {"PlacementGroup.GetByID", "Volume.GetByID", "Server.GetByID",
              "Network.GetByID", "Firewall.GetByID", "LoadBalancer.GetByID",
              "Location.GetByName", "Datacenter.GetByName",
              "Image.GetByNameAndArchitecture", "ServerType.GetByName",
              "SSHKey.GetByFingerprint"}

IsMutating(call) == call.c \notin ReadCalls

\* the mutating calls of a trace, and the calls that failed: a call the
\* provider rejected or an action that ended in error or was not seen to end
Mutations(calls) == SelectSeq(calls, LAMBDA x : IsMutating(x))
Failed(calls) == SelectSeq(calls, LAMBDA x : x.r = "err" \/ x.aw \in {"error", "timeout"})

(***************************************************************************)
(* Provider-side state.  prov.res maps the ids of live resources of this   *)
(* instance to their provider-side fields; prov.next is the id the next    *)
(* successful create returns.                                              *)
(***************************************************************************)
Put(f, k, v) == [x \in DOMAIN f \cup {k} |-> IF x = k THEN v ELSE f[x]]
Drop(f, k)   == [x \in DOMAIN f \ {k} |-> f[x]]

\* a live resource whose id the status does not hold is never looked at
\* again: its fields are not followed
Orphan == [orphan |-> TRUE]
Orphaned(res) == [x \in DOMAIN res |-> Orphan]

Live(id) == id \in DOMAIN prov.res

\* GetByID(ctx, id): the provider answers (nil, nil) for an id it does not know
Found == Live(atProvider.ID)

(***************************************************************************)
(* The record of the last handler invocation                               *)
(***************************************************************************)
\*   op       handler that ran ("None": none since the caller's last change)
\*   calls    the provider calls it issued, in order
\*   err      the error it returned
\*   exists, upToDate   the observation (Observe only)
\*   before   the persisted lastApplied when it started
\*   rep      it is an Update that directly follows a successful Update
\*   missing  the declared references that did not exist (Create only)
NoPass(p) == [op |-> "None", calls |-> <<>>, err |-> NoErr, exists |-> FALSE,
              upToDate |-> FALSE, before |-> p, rep |-> FALSE, missing |-> {}]

Pass(op, calls, err) ==
    [op |-> op, calls |-> calls, err |-> err, exists |-> FALSE, upToDate |-> FALSE,
     before |-> atProvider.params, rep |-> (op = "Update" /\ updClean), missing |-> {}]

Observation(calls, err, exists, upToDate) ==
    [op |-> "Observe", calls |-> calls, err |-> err, exists |-> exists,
     upToDate |-> upToDate, before |-> atProvider.params, rep |-> FALSE, missing |-> {}]

(***************************************************************************)
(* Scheduling.  The managed reconciler runs Observe and then at most one   *)
(* of Create / Update / Delete; in direct mode a caller may in addition    *)
(* invoke Update once more right after an Update that succeeded.           *)
(***************************************************************************)
MayRun(op) ==
    \/ next = op
    \/ sched = "direct" /\ op = "Update" /\ last.op = "Update" /\ updClean /\ ~last.rep

AfterObserve(err, exists, upToDate) ==
    IF err # NoErr THEN "Observe"
    ELSE IF deleting THEN (IF exists THEN "Delete" ELSE "Discard")
    ELSE IF ~exists THEN "Create"
    ELSE IF ~upToDate THEN "Update"
    ELSE "Observe"

\* mutating calls whose effect reached the provider; an action that timed
\* out locally may still complete at the provider (late)
Landed(calls, late) ==
    SelectSeq(calls, LAMBDA x :
        /\ IsMutating(x)
        /\ x.r = "ok"
        /\ (x.aw \in {"none", "success"} \/ (x.aw = "timeout" /\ late)))

Without(seq, x) == SelectSeq(seq, LAMBDA y : y # x)
WithoutPort(svcs, port) == SelectSeq(svcs, LAMBDA y : y.ListenPort # port)

\* effect of one accepted call on the provider-side resource r
Effect(r, call) ==
    CASE call.c = "Volume.Detach"         -> [r EXCEPT !.server = NilRef]
      [] call.c = "Volume.AttachWithOpts" -> [r EXCEPT !.server = call.a]
      [] call.c = "Volume.Resize"         -> [r EXCEPT !.size = call.a]
      [] call.c = "Server.Poweron"        -> [r EXCEPT !.powerOn = TRUE]
      [] call.c = "Server.Poweroff"       -> [r EXCEPT !.powerOn = FALSE]
      [] call.c = "Network.ChangeIPRange" -> [r EXCEPT !.ipRange = call.a]
      [] call.c = "Firewall.RemoveResources" -> [r EXCEPT !.appliedTo = <<>>]
      [] call.c = "Firewall.ApplyResources"  -> [r EXCEPT !.appliedTo = call.a]
      [] call.c = "Firewall.SetRules"        -> [r EXCEPT !.rules = call.a]
      [] call.c = "LoadBalancer.ChangeType"  -> [r EXCEPT !.type = call.a]
      [] call.c = "LoadBalancer.EnablePublicInterface"  -> [r EXCEPT !.public = TRUE]
      [] call.c = "LoadBalancer.DisablePublicInterface" -> [r EXCEPT !.public = FALSE]
      [] call.c = "LoadBalancer.ChangeAlgorithm"   -> [r EXCEPT !.algorithm = call.a]
      [] call.c = "LoadBalancer.DetachFromNetwork" -> [r EXCEPT !.nets = Without(@, call.a)]
      [] call.c = "LoadBalancer.AttachToNetwork"   -> [r EXCEPT !.nets = Append(@, call.a)]
      [] call.c = "LoadBalancer.DeleteService" -> [r EXCEPT !.services = WithoutPort(@, call.a)]
      [] call.c = "LoadBalancer.AddService"    -> [r EXCEPT !.services = Append(@, call.a)]
      [] OTHER                            -> r

RECURSIVE Effects(_, _, _)
Effects(r, calls, i) ==
    IF i > Len(calls) THEN r ELSE Effects(Effect(r, calls[i]), calls, i + 1)

\* provider state after the calls of an Update or Delete pass on resource id
ProvAfter(id, calls, late) ==
    IF Live(id)
    THEN [prov EXCEPT !.res = Put(prov.res, id, Effects(prov.res[id], Landed(calls, late), 1))]
    ELSE prov

\* the failure inputs of a pass: failing step, mode, late completion, status save
PassInputs(plan, f, fm, late, saveOK) ==
    /\ FailChoice(plan, f, fm)
    /\ late => (f > 0 /\ fm = "timeout")
    /\ ~saveOK => (f = 0 /\ Reach(plan, 1) = Len(plan))

(***************************************************************************)
(* Handlers common to every kind                                           *)
(***************************************************************************)
\* faulty variant: a lookup that answers "not found" is returned as an error
ObserveWith_NotFoundIsError(getByID, upToDate) ==
    \E f \in 0..1 :
        LET plan == <<Lookup(getByID, atProvider.ID, ~Found, <<>>, <<"not found">>)>>
            run  == Exec(plan, 1, f, "call")
            ex   == run.err = NoErr /\ Found
            utd  == ex /\ upToDate
        IN  /\ last' = Observation(run.calls, run.err, ex, utd)
            /\ next' = AfterObserve(run.err, ex, utd)
            /\ UNCHANGED <<awaiterVars, convVars, upsertVars, kind, sched, spec, atProvider, prov, deleting, created, updClean, edits>>

\* faulty variant: a failed lookup is taken for "does not exist"
ObserveWith_ErrorIsAbsent(getByID, upToDate) ==
    \E f \in 0..1 :
        LET plan == <<Lookup(getByID, atProvider.ID, ~Found, <<>>, NoErr)>>
            run  == Exec(plan, 1, f, "call")
            ex   == run.err = NoErr /\ Found
            utd  == ex /\ upToDate
        IN  /\ last' = Observation(run.calls, run.err, ex, utd)
            /\ next' = AfterObserve(NoErr, ex, utd)
            /\ UNCHANGED <<awaiterVars, convVars, upsertVars, kind, sched, spec, atProvider, prov, deleting, created, updClean, edits>>

\* Observe: GetByID by the stored id; an error is returned as it is, (nil, nil)
\* is "does not exist", otherwise the drift detector runs.
ObserveWith(getByID, upToDate) ==
    \E f \in 0..1 :
        LET plan == <<Lookup(getByID, atProvider.ID, ~Found, <<>>, NoErr)>>
            run  == Exec(plan, 1, f, "call")
            ex   == run.err = NoErr /\ Found
            utd  == ex /\ upToDate
        IN  /\ last' = Observation(run.calls, run.err, ex, utd)
            /\ next' = AfterObserve(run.err, ex, utd)
            /\ UNCHANGED <<awaiterVars, convVars, upsertVars, kind, sched, spec, atProvider, prov, deleting, created, updClean, edits>>

\* faulty variant: the id is stored, the parameters stay nil
StatusAfterCreate_IDOnly(made, saveOK) ==
    IF made /\ saveOK
    THEN [atProvider EXCEPT !.ID = prov.next]
    ELSE atProvider

\* cr.Status.AtProvider.ID = <new id>; ...Parameters = &cr.Spec.ForProvider;
\* kube.Status().Update(ctx, cr)
StatusAfterCreate(made, saveOK) ==
    IF made /\ saveOK
    THEN [ID |-> prov.next, present |-> TRUE, params |-> spec]
    ELSE atProvider

\* the error a plan ends with
PlanErr(plan, f, fm) == Exec(plan, 1, f, fm).err

\* Create: plan ends with the provider create call; on success the new id and
\* the whole desired spec are stored.  failErr is the error the handler
\* returns when the plan has failed.
CreateWith(plan, f, fm, saveOK, saveMsg, newRes, failErr, missing) ==
    LET run  == Exec(plan, 1, f, fm)
        made == run.err = NoErr
        err  == IF made THEN (IF saveOK THEN NoErr ELSE <<saveMsg, "conflict">>)
                ELSE failErr
    IN  /\ PassInputs(plan, f, fm, FALSE, saveOK)
        /\ made => prov.next <= MaxCreates
        /\ last' = [Pass("Create", run.calls, err) EXCEPT !.missing = missing]
        /\ prov' = IF made
                   THEN [next |-> prov.next + 1,
                         res  |-> IF saveOK
                                  THEN Put(Orphaned(prov.res), prov.next, newRes)
                                  ELSE Put(prov.res, prov.next, Orphan)]
                   ELSE prov
        /\ created' = (created \/ made)
        /\ atProvider' = StatusAfterCreate(made, saveOK)
        /\ next' = "Observe"
        /\ updClean' = FALSE
        /\ UNCHANGED <<awaiterVars, convVars, upsertVars, kind, sched, spec, deleting, edits>>

\* faulty variant: the parameters are stored also when the pass has failed
UpdateWith_SavesOnFailure(plan, f, fm, late, saveOK, saveMsg, applied) ==
    \E run \in {Exec(plan, 1, f, fm)} :
    LET done == run.err = NoErr
        err  == IF done /\ ~saveOK THEN <<saveMsg, "conflict">> ELSE run.err
    IN  /\ PassInputs(plan, f, fm, late, saveOK)
        /\ last' = Pass("Update", run.calls, err)
        /\ prov' = ProvAfter(atProvider.ID, run.calls, late)
        /\ atProvider' = IF atProvider.present
                         THEN [atProvider EXCEPT !.params = applied]
                         ELSE atProvider
        /\ next' = "Observe"
        /\ updClean' = (err = NoErr)
        /\ UNCHANGED <<awaiterVars, convVars, upsertVars, kind, sched, spec, deleting, created, edits>>

\* Update: plan is the GetByID, the label update and the sub-operations; on
\* success applied is stored as lastApplied and kube.Status().Update is called.
UpdateWith(plan, f, fm, late, saveOK, saveMsg, applied) ==
    \E run \in {Exec(plan, 1, f, fm)} :
    LET done == run.err = NoErr
        err  == IF done /\ ~saveOK THEN <<saveMsg, "conflict">> ELSE run.err
    IN  /\ PassInputs(plan, f, fm, late, saveOK)
        /\ last' = Pass("Update", run.calls, err)
        /\ prov' = ProvAfter(atProvider.ID, run.calls, late)
        /\ atProvider' = IF done /\ saveOK
                         THEN [atProvider EXCEPT !.params = applied]
                         ELSE atProvider
        /\ next' = "Observe"
        /\ updClean' = (err = NoErr)
        /\ UNCHANGED <<awaiterVars, convVars, upsertVars, kind, sched, spec, deleting, created, edits>>

\* Delete: plan ends with the provider delete call; the status is not touched.
DeleteWith(plan, f, fm, late) ==
    LET run  == Exec(plan, 1, f, fm)
        gone == run.err = NoErr
        mid  == ProvAfter(atProvider.ID, run.calls, late)
    IN  /\ PassInputs(plan, f, fm, late, TRUE)
        /\ last' = Pass("Delete", run.calls, run.err)
        /\ prov' = IF gone THEN [mid EXCEPT !.res = Drop(mid.res, atProvider.ID)] ELSE mid
        /\ created' = (created /\ ~gone)
        /\ next' = "Observe"
        /\ updClean' = FALSE
        /\ UNCHANGED <<awaiterVars, convVars, upsertVars, kind, sched, spec, atProvider, deleting, edits>>

(***************************************************************************)
(* PlacementGroup                                                          *)
(***************************************************************************)
PlacementGroupSpecs == [Labels : LabelMaps, Type : {"spread"}]

PlacementGroupIsUpToDate ==
    /\ atProvider.present
    /\ spec.Labels = atProvider.params.Labels

PlacementGroupObserve ==
    /\ kind = "PlacementGroup" /\ MayRun("Observe")
    /\ ObserveWith("PlacementGroup.GetByID", PlacementGroupIsUpToDate)

PlacementGroupCreate ==
    /\ kind = "PlacementGroup" /\ MayRun("Create")
    /\ \E saveOK \in BOOLEAN, now \in Clock :
        LET plan == <<Mutate("PlacementGroup.Create", ApplyDefaultLabels(spec.Labels, now),
                             <<"failed to create placement group">>)>>
        IN  \E f \in 0..Len(plan) :
                CreateWith(plan, f, "call", saveOK, "failed to save status",
                           [type |-> spec.Type], PlanErr(plan, f, "call"), {})

\* the placement group returned by GetByID is used without a nil check
PlacementGroupUpdatePlan(now) ==
    <<LookupUnchecked("PlacementGroup.GetByID", atProvider.ID, ~Found,
                      <<"failed to get placement group">>)>>
    \o (IF ~Found THEN <<PanicStep>>
        ELSE <<Mutate("PlacementGroup.Update", ApplyDefaultLabels(spec.Labels, now),
                      <<"failed to perform placement group update">>)>>
             \o (IF atProvider.present THEN <<>> ELSE <<PanicStep>>))

\* cr.Status.AtProvider.PlacementGroupParameters.Labels = target.Labels
PlacementGroupApplied == [atProvider.params EXCEPT !.Labels = spec.Labels]

PlacementGroupUpdate ==
    /\ kind = "PlacementGroup" /\ MayRun("Update")
    /\ \E saveOK \in BOOLEAN, now \in Clock :
        \E plan \in {PlacementGroupUpdatePlan(now)} :
            \E f \in 0..Len(plan) :
                UpdateWith(plan, f, "call", FALSE, saveOK, "failed to save status",
                           PlacementGroupApplied)

PlacementGroupDelete ==
    /\ kind = "PlacementGroup" /\ MayRun("Delete")
    /\ LET plan == <<Mutate("PlacementGroup.Delete", atProvider.ID,
                            <<"failed to delete placement group">>)>>
       IN  \E f \in 0..Len(plan) : DeleteWith(plan, f, "call", FALSE)

(***************************************************************************)
(* Volume                                                                  *)
(***************************************************************************)
ServerRefs == {NilRef, 11}

VolumeSpecs == [Labels : LabelMaps, ServerID : ServerRefs, Size : 1..MaxSize,
                Location : {NilStr, "fsn1"}]

\* `!=` on two *int64 compares the pointers.  Spec and status are decoded
\* from the stored object into separate allocations, so two such pointers
\* are equal only when both are nil.
PtrNotEqual(a, b) == ~(a = NilRef /\ b = NilRef)

\* faulty variant: any size difference is drift
SizeDrift_AnyChange(current, target) == current # target

\* IsUpToDate: current.Size < target.Size
SizeDrift(current, target) == current < target

\* faulty variant: a smaller size is resized to as well
NeedsResize_AnyChange(current, target) == current # target

\* Update: current.Size < target.Size
NeedsResize(current, target) == current < target

VolumeIsUpToDateOf(target, present, current) ==
    /\ present
    /\ target.Labels = current.Labels
    /\ ~PtrNotEqual(current.ServerID, target.ServerID)
    /\ ~SizeDrift(current.Size, target.Size)

VolumeIsUpToDate == VolumeIsUpToDateOf(spec, atProvider.present, atProvider.params)

VolumeObserve ==
    /\ kind = "Volume" /\ MayRun("Observe")
    /\ ObserveWith("Volume.GetByID", VolumeIsUpToDate)

\* location and server are resolved before Volume.Create
VolumeCreatePlan(missing, now) ==
    (IF spec.Location # NilStr
     THEN <<Lookup("Location.GetByName", spec.Location, "location" \in missing,
                   <<"failed to get location">>, <<"unknown location">>)>>
     ELSE <<>>)
    \o (IF spec.ServerID # NilRef
        THEN <<Lookup("Server.GetByID", spec.ServerID, "server" \in missing,
                      <<"failed to get server">>, <<"unknown server">>)>>
        ELSE <<>>)
    \o <<Mutate("Volume.Create", ApplyDefaultLabels(spec.Labels, now),
                <<"failed to create volume">>)>>

\* the references a volume declares
VolumeDeclared ==
    (IF spec.Location # NilStr THEN {"location"} ELSE {})
    \cup (IF spec.ServerID # NilRef THEN {"server"} ELSE {})

VolumeCreate ==
    /\ kind = "Volume" /\ MayRun("Create")
    /\ \E missing \in SUBSET VolumeDeclared, saveOK \in BOOLEAN, now \in Clock :
        LET plan == VolumeCreatePlan(missing, now)
        IN  \E f \in 0..Len(plan) :
                /\ Cardinality(missing) <= MaxMissing
                /\ CreateWith(plan, f, "call", saveOK, "failed to save status",
                              [server |-> spec.ServerID, size |-> spec.Size], PlanErr(plan, f, "call"), missing)

\* faulty variant: the volume is attached only when it was detached in the
\* same pass
updateServerAttachment_OnlyAfterDetach(hasServer, params, w) ==
    IF hasServer
    THEN <<Async("Volume.Detach", 0, w \o <<"failed to trigger detach volume">>,
                 w \o <<"failed to detach volume">>)>>
         \o (IF Len(params) > 0 /\ params[1].ServerID # NilRef
             THEN <<Async("Volume.AttachWithOpts", params[1].ServerID,
                          w \o <<"failed to trigger attach volume">>,
                          w \o <<"failed to attach volume">>)>>
             ELSE <<>>)
    ELSE <<>>

\* detach when the volume object carries a server, then attach per params
updateServerAttachment(hasServer, params, w) ==
    (IF hasServer
     THEN <<Async("Volume.Detach", 0, w \o <<"failed to trigger detach volume">>,
                  w \o <<"failed to detach volume">>)>>
     ELSE <<>>)
    \o (IF Len(params) > 0 /\ params[1].ServerID # NilRef
        THEN <<Async("Volume.AttachWithOpts", params[1].ServerID,
                     w \o <<"failed to trigger attach volume">>,
                     w \o <<"failed to attach volume">>)>>
        ELSE <<>>)

resize(size) ==
    <<Async("Volume.Resize", size, <<"failed to trigger resize volume">>,
            <<"failed to resize volume">>)>>

VolumeUpdatePlan(now) ==
    <<Lookup("Volume.GetByID", atProvider.ID, ~Found,
             <<"failed to get volume">>, <<"unknown volume">>)>>
    \o (IF ~Found THEN <<>>
        ELSE IF ~atProvider.present THEN <<PanicStep>>
        ELSE LET current == atProvider.params
                 target  == spec
                 volume  == prov.res[atProvider.ID]
             IN  <<Mutate("Volume.Update", ApplyDefaultLabels(target.Labels, now),
                          <<"failed to update server">>)>>
                 \o (IF PtrNotEqual(current.ServerID, target.ServerID)
                     THEN updateServerAttachment(volume.server # NilRef, <<target>>, <<>>)
                     ELSE <<>>)
                 \o (IF NeedsResize(current.Size, target.Size) THEN resize(target.Size) ELSE <<>>))

\* the labels, the server id and the size of the target are stored
VolumeApplied ==
    [atProvider.params EXCEPT !.Labels = spec.Labels, !.ServerID = spec.ServerID,
                              !.Size = spec.Size]

VolumeUpdate ==
    /\ kind = "Volume" /\ MayRun("Update")
    /\ \E fm \in FailModes, late \in BOOLEAN, saveOK \in BOOLEAN, now \in Clock :
        \E plan \in {VolumeUpdatePlan(now)} :
            \E f \in 0..Len(plan) :
                UpdateWith(plan, f, fm, late, saveOK, "failed to save status", VolumeApplied)

\* faulty variant: the volume is deleted without being detached
VolumeDeletePlan_NoDetach ==
    IF ~atProvider.present \/ atProvider.params.ServerID = NilRef
    THEN <<PanicStep>>
    ELSE <<Mutate("Volume.Delete", atProvider.ID, <<"failed to delete volume">>)>>

\* the volume object is built from the status: *ServerID is dereferenced,
\* so volume.Server is never nil and Detach is always issued
VolumeDeletePlan ==
    IF ~atProvider.present \/ atProvider.params.ServerID = NilRef
    THEN <<PanicStep>>
    ELSE updateServerAttachment(TRUE, <<>>, <<"failed to detach volumes before delete">>)
         \o <<Mutate("Volume.Delete", atProvider.ID, <<"failed to delete volume">>)>>

VolumeDelete ==
    /\ kind = "Volume" /\ MayRun("Delete")
    /\ \E fm \in FailModes, late \in BOOLEAN :
        LET plan == VolumeDeletePlan
        IN  \E f \in 0..Len(plan) : DeleteWith(plan, f, fm, late)

(***************************************************************************)
(* Server                                                                  *)
(***************************************************************************)
ServerSpecs ==
    [Labels : LabelMaps, PowerOn : BOOLEAN, StartAfterCreate : BOOLEAN,
     Image : {"ubuntu-22.04", "debian-12"}, ServerType : {"cx11"},
     Datacenter : {NilStr, "fsn1-dc14"}, Location : {NilStr, "fsn1"},
     FirewallIDs : {<<>>, <<21>>}, NetworkIDs : {<<>>, <<31>>},
     PlacementGroupID : {NilRef, 41}, VolumeIDs : {<<>>, <<51>>},
     SSHKeys : {<<>>, <<"ssh-ed25519 AAAA">>}]

ServerIsUpToDate ==
    /\ atProvider.present
    /\ spec.Labels = atProvider.params.Labels
    /\ spec.PowerOn = atProvider.params.PowerOn

ServerObserve ==
    /\ kind = "Server" /\ MayRun("Observe")
    /\ ObserveWith("Server.GetByID", ServerIsUpToDate)

\* pkg/hcloud: the datacenter wins over the location; one of them is required
GetDatacenterOrLocation(datacenter, location, missing, w) ==
    IF datacenter # NilStr
    THEN <<Lookup("Datacenter.GetByName", datacenter, "datacenter" \in missing,
                  w \o <<"failed to get datacenter">>, w \o <<"unknown datacenter">>)>>
    ELSE IF location # NilStr
    THEN <<Lookup("Location.GetByName", location, "location" \in missing,
                  w \o <<"failed to get location">>, w \o <<"unknown location">>)>>
    ELSE <<Return(w \o <<"datacenter and location not set">>)>>

\* getFirewalls, getNetworks, getVolumes: one GetByID per declared id
RECURSIVE GetEach(_, _, _, _, _, _)
GetEach(c, ids, name, missing, w, wn) ==
    IF ids = <<>> THEN <<>>
    ELSE <<Lookup(c, Head(ids), name \in missing, w, wn)>>
         \o GetEach(c, Tail(ids), name, missing, w, wn)

\* pkg/hcloud: look the key up by fingerprint, upload it when it is not there
UpsertSSHKey(publicKey, keyExists) ==
    IF keyExists
    THEN <<LookupUnchecked("SSHKey.GetByFingerprint", publicKey, FALSE,
                           <<"failed to upsert ssh key">>)>>
    ELSE <<LookupUnchecked("SSHKey.GetByFingerprint", publicKey, TRUE,
                           <<"failed to upsert ssh key">>),
           Mutate("SSHKey.Create", publicKey, <<"failed to upsert ssh key">>)>>

RECURSIVE UpsertSSHKeys(_, _)
UpsertSSHKeys(publicKeys, keyExists) ==
    IF publicKeys = <<>> THEN <<>>
    ELSE UpsertSSHKey(Head(publicKeys), keyExists) \o UpsertSSHKeys(Tail(publicKeys), keyExists)

\* faulty variant: the ssh keys are uploaded before the references are resolved
ServerResolve_KeysFirst(missing, keyExists) ==
    UpsertSSHKeys(spec.SSHKeys, keyExists)
    \o GetDatacenterOrLocation(spec.Datacenter, spec.Location, missing,
                               <<"failed to get datacenter or location">>)
    \o GetEach("Firewall.GetByID", spec.FirewallIDs, "firewall", missing,
               <<"error getting firewall">>, <<"unknown firewall">>)
    \o <<Lookup("Image.GetByNameAndArchitecture", spec.Image, "image" \in missing,
                <<"failed to get image">>, <<"unknown image">>)>>
    \o GetEach("Network.GetByID", spec.NetworkIDs, "network", missing,
               <<"error getting network">>, <<"unknown network">>)
    \o (IF spec.PlacementGroupID # NilRef
        THEN <<Lookup("PlacementGroup.GetByID", spec.PlacementGroupID,
                      "placementGroup" \in missing,
                      <<"failed to query placement group">>, <<"no placement group found">>)>>
        ELSE <<>>)
    \o <<Lookup("ServerType.GetByName", spec.ServerType, "serverType" \in missing,
                <<"failed to get server type">>, <<"unknown server type">>)>>
    \o GetEach("Volume.GetByID", spec.VolumeIDs, "volume", missing,
               <<"error getting volume">>, <<"unknown volume">>)

\* Create, up to the provider create call: every reference, then the ssh keys
ServerResolve(missing, keyExists) ==
    GetDatacenterOrLocation(spec.Datacenter, spec.Location, missing,
                            <<"failed to get datacenter or location">>)
    \o GetEach("Firewall.GetByID", spec.FirewallIDs, "firewall", missing,
               <<"error getting firewall">>, <<"unknown firewall">>)
    \o <<Lookup("Image.GetByNameAndArchitecture", spec.Image, "image" \in missing,
                <<"failed to get image">>, <<"unknown image">>)>>
    \o GetEach("Network.GetByID", spec.NetworkIDs, "network", missing,
               <<"error getting network">>, <<"unknown network">>)
    \o (IF spec.PlacementGroupID # NilRef
        THEN <<Lookup("PlacementGroup.GetByID", spec.PlacementGroupID,
                      "placementGroup" \in missing,
                      <<"failed to query placement group">>, <<"no placement group found">>)>>
        ELSE <<>>)
    \o <<Lookup("ServerType.GetByName", spec.ServerType, "serverType" \in missing,
                <<"failed to get server type">>, <<"unknown server type">>)>>
    \o GetEach("Volume.GetByID", spec.VolumeIDs, "volume", missing,
               <<"error getting volume">>, <<"unknown volume">>)
    \o UpsertSSHKeys(spec.SSHKeys, keyExists)

ServerCreatePlan(missing, keyExists, now) ==
    ServerResolve(missing, keyExists)
    \o <<Mutate("Server.Create", ApplyDefaultLabels(spec.Labels, now),
                <<"failed to create server">>)>>

\* the references a server declares, as GetDatacenterOrLocation reads them
ServerDeclared ==
    (IF spec.Datacenter # NilStr THEN {"datacenter"}
     ELSE IF spec.Location # NilStr THEN {"location"} ELSE {})
    \cup (IF spec.FirewallIDs # <<>> THEN {"firewall"} ELSE {})
    \cup {"image", "serverType"}
    \cup (IF spec.NetworkIDs # <<>> THEN {"network"} ELSE {})
    \cup (IF spec.PlacementGroupID # NilRef THEN {"placementGroup"} ELSE {})
    \cup (IF spec.VolumeIDs # <<>> THEN {"volume"} ELSE {})

ServerCreate ==
    /\ kind = "Server" /\ MayRun("Create")
    /\ \E missing \in SUBSET ServerDeclared, keyExists \in BOOLEAN,
          saveOK \in BOOLEAN, now \in Clock :
        LET plan == ServerCreatePlan(missing, keyExists, now)
        IN  \E f \in 0..Len(plan) :
                /\ Cardinality(missing) <= MaxMissing
                /\ (keyExists => spec.SSHKeys # <<>>)
                /\ CreateWith(plan, f, "call", saveOK, "failed to save create status",
                              [powerOn |-> spec.StartAfterCreate], PlanErr(plan, f, "call"), missing)

\* the server returned by GetByID is used without a nil check
ServerUpdatePlan(now) ==
    <<LookupUnchecked("Server.GetByID", atProvider.ID, ~Found, <<"failed to get server">>)>>
    \o (IF ~atProvider.present \/ ~Found THEN <<PanicStep>>
        ELSE LET current == atProvider.params
                 target  == spec
             IN  <<Mutate("Server.Update", ApplyDefaultLabels(target.Labels, now),
                          <<"failed to update server">>)>>
                 \o (IF current.PowerOn # target.PowerOn
                     THEN <<Async(IF target.PowerOn THEN "Server.Poweron" ELSE "Server.Poweroff",
                                  0, <<"failed to change power state">>,
                                  <<"error waiting for server to change power state">>)>>
                     ELSE <<>>))

\* faulty variant: the power state is not stored
ServerApplied_LabelsOnly == [atProvider.params EXCEPT !.Labels = spec.Labels]

\* faulty variant: the whole target is stored
ServerApplied_WholeTarget == spec

\* the labels and the power state of the target are stored
ServerApplied ==
    [atProvider.params EXCEPT !.Labels = spec.Labels, !.PowerOn = spec.PowerOn]

ServerUpdate ==
    /\ kind = "Server" /\ MayRun("Update")
    /\ \E fm \in FailModes, late \in BOOLEAN, saveOK \in BOOLEAN, now \in Clock :
        \E plan \in {ServerUpdatePlan(now)} :
            \E f \in 0..Len(plan) :
                UpdateWith(plan, f, fm, late, saveOK, "failed to save status", ServerApplied)

ServerDelete ==
    /\ kind = "Server" /\ MayRun("Delete")
    /\ LET plan == <<Mutate("Server.DeleteWithResult", atProvider.ID,
                            <<"failed to trigger server delete">>)>>
       IN  \E f \in 0..Len(plan) : DeleteWith(plan, f, "call", FALSE)

(***************************************************************************)
(* Network                                                                 *)
(***************************************************************************)
errIPRangeParseFailed          == "iprange cannot be parsed as a cidr"
errSubnetIPRangeParseFailed    == "subnet.iprange cannot be parsed as a cidr"
errRouteDestinationCannotParse == "route.destination cannot be parsed as a cidr"

\* the literals net.ParseCIDR accepts, among those the caller writes
ValidCIDRs == {"10.0.0.0/16", "10.1.0.0/16", "10.0.1.0/24", "10.100.1.0/24", "10.0.0.0/24",
               "10.0.0.5/24", "192.168.0.0/16"}
ParseCIDROk(str) == str \in ValidCIDRs

AllValid(strs) == \A i \in 1..Len(strs) : ParseCIDROk(strs[i])

NetworkSpecs ==
    [Labels : LabelMaps, IPRange : {"10.0.0.0/16", "10.1.0.0/16", "10.0.0.0/33"},
     Subnets : {<<>>, <<"10.0.1.0/24">>, <<"10.0.1.0/240">>},
     Routes : {<<>>, <<"10.100.1.0/24">>, <<"10.100.1.0">>}]

\* labels are compared; routes and subnets are not owned after creation
NetworkIsUpToDate ==
    /\ atProvider.present
    /\ spec.Labels = atProvider.params.Labels

NetworkObserve ==
    /\ kind = "Network" /\ MayRun("Observe")
    /\ ObserveWith("Network.GetByID", NetworkIsUpToDate)

NetworkCreatePlan(now) ==
    IF ~ParseCIDROk(spec.IPRange)
    THEN <<Return(<<errIPRangeParseFailed, "invalid CIDR address">>)>>
    ELSE IF ~AllValid(spec.Subnets)
    THEN <<Return(<<errSubnetIPRangeParseFailed, "invalid CIDR address">>)>>
    ELSE IF ~AllValid(spec.Routes)
    THEN <<Return(<<errRouteDestinationCannotParse, "invalid CIDR address">>)>>
    ELSE <<Mutate("Network.Create", ApplyDefaultLabels(spec.Labels, now),
                  <<"cannot create new network">>)>>

NetworkCreate ==
    /\ kind = "Network" /\ MayRun("Create")
    /\ \E saveOK \in BOOLEAN, now \in Clock :
        LET plan == NetworkCreatePlan(now)
        IN  \E f \in 0..Len(plan) :
                CreateWith(plan, f, "call", saveOK, "failed to save status",
                           [ipRange |-> spec.IPRange, subnets |-> spec.Subnets,
                            routes |-> spec.Routes], PlanErr(plan, f, "call"), {})

\* the network returned by GetByID is used without a nil check; the new ip
\* range is parsed after the label update has been issued
NetworkUpdatePlan(now) ==
    <<LookupUnchecked("Network.GetByID", atProvider.ID, ~Found, <<"failed to get network">>)>>
    \o (IF ~atProvider.present \/ ~Found THEN <<PanicStep>>
        ELSE LET current == atProvider.params
                 target  == spec
             IN  <<Mutate("Network.Update", ApplyDefaultLabels(target.Labels, now),
                          <<"failed to perform network update">>)>>
                 \o (IF target.IPRange = current.IPRange THEN <<>>
                     ELSE IF ~ParseCIDROk(target.IPRange)
                     THEN <<Return(<<errIPRangeParseFailed, "invalid CIDR address">>)>>
                     ELSE <<Async("Network.ChangeIPRange", target.IPRange,
                                  <<"failed to create change ip range action">>,
                                  <<"failed to change ip range">>)>>))

\* faulty variant: the whole target is stored
NetworkApplied_WholeTarget == spec

\* a copy of the target is stored, with the routes and subnets of the status
NetworkApplied ==
    [spec EXCEPT !.Routes = atProvider.params.Routes,
                 !.Subnets = atProvider.params.Subnets]

NetworkUpdate ==
    /\ kind = "Network" /\ MayRun("Update")
    /\ \E fm \in FailModes, late \in BOOLEAN, saveOK \in BOOLEAN, now \in Clock :
        \E plan \in {NetworkUpdatePlan(now)} :
            \E f \in 0..Len(plan) :
                UpdateWith(plan, f, fm, late, saveOK, "failed to save status", NetworkApplied)

NetworkDelete ==
    /\ kind = "Network" /\ MayRun("Delete")
    /\ LET plan == <<Mutate("Network.Delete", atProvider.ID, <<"error deleting network">>)>>
       IN  \E f \in 0..Len(plan) : DeleteWith(plan, f, "call", FALSE)

(***************************************************************************)
(* Firewall                                                                *)
(***************************************************************************)
\* a *FirewallPort is <<>> when nil and <<port>> otherwise; a nil *int is NilRef
FirewallPorts == [All : BOOLEAN, Start : {NilRef, 80, 90}, End : {NilRef, 80, 90}]

\* FirewallPort.String: "any" for a nil port or all; the start, followed by
\* "-" and the end when the end is given and differs; s stays "" when
\* neither all nor start is given
String(f) ==
    IF f = <<>> THEN "any"
    ELSE IF f[1].All THEN "any"
    ELSE IF f[1].Start # NilRef
    THEN FormatInt(f[1].Start)
         \o (IF f[1].End # NilRef /\ f[1].Start # f[1].End
             THEN "-" \o FormatInt(f[1].End) ELSE "")
    ELSE ""

FirewallRuleSet ==
    [Direction : {"in", "out"}, Protocol : {"tcp"},
     TargetIPs : {<<"10.0.0.0/24">>, <<"10.0.0.0/24", "10.0.0.0">>},
     Description : {NilStr},
     Port : {<<[All |-> FALSE, Start |-> 80, End |-> NilRef]>>}]

\* the *net.IPNet of net.ParseCIDR: the network of the address, host bits
\* masked
IPNets(strs) ==
    [i \in 1..Len(strs) |-> IF strs[i] = "10.0.0.5/24" THEN "10.0.0.0/24" ELSE strs[i]]

FirewallSpecs ==
    [Labels : LabelMaps,
     ApplyTo : {<<>>, <<[Type |-> "server", ServerID |-> 11]>>},
     Rules : {<<>>} \cup {<<r>> : r \in {x \in FirewallRuleSet : x.Direction = "in"}}]

\* faulty variant: the target ips go to the list of the other direction
ToFirewallRule_Mirrored(f) ==
    [Description    |-> f.Description,
     Direction      |-> f.Direction,
     Protocol       |-> f.Protocol,
     Port           |-> IF f.Protocol \in {"tcp", "udp"} THEN String(f.Port) ELSE NilStr,
     SourceIPs      |-> IF f.Direction = "out" THEN IPNets(f.TargetIPs) ELSE <<>>,
     DestinationIPs |-> IF f.Direction = "in" THEN IPNets(f.TargetIPs) ELSE <<>>]

\* FirewallRules.ToFirewallRule: the target ips populate the source list of
\* an inbound rule and the destination list of an outbound rule
ToFirewallRule(f) ==
    [Description    |-> f.Description,
     Direction      |-> f.Direction,
     Protocol       |-> f.Protocol,
     Port           |-> IF f.Protocol \in {"tcp", "udp"} THEN String(f.Port) ELSE NilStr,
     SourceIPs      |-> IF f.Direction = "in" THEN IPNets(f.TargetIPs) ELSE <<>>,
     DestinationIPs |-> IF f.Direction = "out" THEN IPNets(f.TargetIPs) ELSE <<>>]

ToFirewallRuleOk(f) == AllValid(f.TargetIPs)

getFirewallRulesOk(input) == \A i \in 1..Len(input) : ToFirewallRuleOk(input[i])
getFirewallRules(input) == [i \in 1..Len(input) |-> ToFirewallRule(input[i])]

\* FirewallApplyTo.ToFirewallResource
ToFirewallResource(a) == [Type |-> a.Type, Server |-> a.ServerID]
ToFirewallResources(as) == [i \in 1..Len(as) |-> ToFirewallResource(as[i])]

\* faulty variant: the rules are not compared
FirewallIsUpToDate_RulesIgnored ==
    /\ atProvider.present
    /\ spec.ApplyTo = atProvider.params.ApplyTo
    /\ spec.Labels = atProvider.params.Labels

\* IsUpToDate: the apply-to list, the labels and the rules are compared
FirewallIsUpToDate ==
    /\ atProvider.present
    /\ spec.ApplyTo = atProvider.params.ApplyTo
    /\ spec.Labels = atProvider.params.Labels
    /\ spec.Rules = atProvider.params.Rules

FirewallObserve ==
    /\ kind = "Firewall" /\ MayRun("Observe")
    /\ ObserveWith("Firewall.GetByID", FirewallIsUpToDate)

FirewallCreatePlan(now) ==
    IF ~getFirewallRulesOk(spec.Rules)
    THEN <<Return(<<"failed to convert firewall rules", "error parsing firewall cidr",
                    "invalid CIDR address">>)>>
    ELSE <<Mutate("Firewall.Create", ApplyDefaultLabels(spec.Labels, now),
                  <<"failed to create firewall">>)>>

FirewallCreate ==
    /\ kind = "Firewall" /\ MayRun("Create")
    /\ \E saveOK \in BOOLEAN, now \in Clock :
        LET plan == FirewallCreatePlan(now)
        IN  \E f \in 0..Len(plan) :
                CreateWith(plan, f, "call", saveOK, "error saving status",
                           [appliedTo |-> ToFirewallResources(spec.ApplyTo),
                            rules |-> getFirewallRules(spec.Rules)], PlanErr(plan, f, "call"), {})

\* one await per action the call returns
removeResources(resources, w) ==
    <<Async("Firewall.RemoveResources", resources, w, w \o <<"error completing action">>)>>

applyResources(resources, w) ==
    <<Async("Firewall.ApplyResources", ToFirewallResources(resources),
            w \o <<"failed to apply resources">>, w \o <<"error completing action">>)>>

setRules(rules, w) ==
    <<Async("Firewall.SetRules", rules,
            w \o <<"failed to set rules">>, w \o <<"error completing action">>)>>

\* faulty variant: the desired bindings are applied before the old ones are
\* removed
FirewallUpdatePlan_ApplyFirst(now) ==
    IF ~getFirewallRulesOk(spec.Rules)
    THEN <<Return(<<"failed to convert firewall rules", "error parsing firewall cidr",
                    "invalid CIDR address">>)>>
    ELSE <<Lookup("Firewall.GetByID", atProvider.ID, ~Found,
                  <<"failed to find firewall">>, <<"firewall not found">>)>>
         \o (IF ~Found THEN <<>>
             ELSE LET firewall == prov.res[atProvider.ID]
                  IN  <<Mutate("Firewall.Update", ApplyDefaultLabels(spec.Labels, now),
                               <<"failed to update firewall">>)>>
                      \o applyResources(spec.ApplyTo, <<"failed to apply resources">>)
                      \o removeResources(firewall.appliedTo, <<"failed to remove resources">>)
                      \o setRules(getFirewallRules(spec.Rules), <<"failed to set rules">>))

\* rules are converted first; bindings are removed and applied again and the
\* rules are set whatever has changed
FirewallUpdatePlan(now) ==
    IF ~getFirewallRulesOk(spec.Rules)
    THEN <<Return(<<"failed to convert firewall rules", "error parsing firewall cidr",
                    "invalid CIDR address">>)>>
    ELSE <<Lookup("Firewall.GetByID", atProvider.ID, ~Found,
                  <<"failed to find firewall">>, <<"firewall not found">>)>>
         \o (IF ~Found THEN <<>>
             ELSE LET firewall == prov.res[atProvider.ID]
                  IN  <<Mutate("Firewall.Update", ApplyDefaultLabels(spec.Labels, now),
                               <<"failed to update firewall">>)>>
                      \o removeResources(firewall.appliedTo, <<"failed to remove resources">>)
                      \o applyResources(spec.ApplyTo, <<"failed to apply resources">>)
                      \o setRules(getFirewallRules(spec.Rules), <<"failed to set rules">>))

\* cr.Status.AtProvider.FirewallParameters = target.DeepCopy()
FirewallApplied == spec

FirewallUpdate ==
    /\ kind = "Firewall" /\ MayRun("Update")
    /\ \E fm \in FailModes, late \in BOOLEAN, saveOK \in BOOLEAN, now \in Clock :
        \E plan \in {FirewallUpdatePlan(now)} :
            \E f \in 0..Len(plan) :
                UpdateWith(plan, f, fm, late, saveOK, "failed to update status",
                           FirewallApplied)

FirewallDeletePlan ==
    <<Lookup("Firewall.GetByID", atProvider.ID, ~Found,
             <<"failed to get firewall to delete">>, <<"no firewal to delete">>)>>
    \o (IF ~Found THEN <<>>
        ELSE removeResources(prov.res[atProvider.ID].appliedTo, <<"failed to remove resources">>)
             \o <<Mutate("Firewall.Delete", atProvider.ID, <<"failed to delete firewall">>)>>)

FirewallDelete ==
    /\ kind = "Firewall" /\ MayRun("Delete")
    /\ \E fm \in FailModes, late \in BOOLEAN :
        LET plan == FirewallDeletePlan
        IN  \E f \in 0..Len(plan) : DeleteWith(plan, f, fm, late)

(***************************************************************************)
(* LoadBalancer                                                            *)
(***************************************************************************)
\* the http part of a service (sticky sessions, cookie, certificates), by name
StickyHTTP == "sticky-sessions"

Svc(port, http) == [ListenPort |-> port, Protocol |-> "http", HTTP |-> http]

ServiceLists ==
    {<<>>, <<Svc(80, NilStr)>>, <<Svc(80, StickyHTTP)>>, <<Svc(80, NilStr), Svc(443, NilStr)>>}

TargetLists == {<<>>, <<[Type |-> "server", ServerID |-> 11]>>}

LoadBalancerSpecs ==
    [Labels : LabelMaps, Type : {"lb11", "lb21"},
     Algorithm : {"round_robin", "least_connections"}, PublicInterface : BOOLEAN,
     NetworkID : {NilRef, 31}, Services : ServiceLists, Targets : TargetLists]

LoadBalancerIsUpToDate ==
    /\ atProvider.present
    /\ spec.Labels = atProvider.params.Labels
    /\ spec.Type = atProvider.params.Type
    /\ spec.PublicInterface = atProvider.params.PublicInterface
    /\ spec.Algorithm = atProvider.params.Algorithm
    /\ ~PtrNotEqual(spec.NetworkID, atProvider.params.NetworkID)
    /\ spec.Services = atProvider.params.Services
    /\ spec.Targets = atProvider.params.Targets

LoadBalancerObserve ==
    /\ kind = "LoadBalancer" /\ MayRun("Observe")
    /\ ObserveWith("LoadBalancer.GetByID", LoadBalancerIsUpToDate)

\* create options of a service: the http part is carried over
getServices(input) ==
    [i \in 1..Len(input) |->
        [ListenPort |-> input[i].ListenPort, Protocol |-> input[i].Protocol,
         HTTP |-> input[i].HTTP]]

\* AddService options of a service as updateServices builds them: protocol,
\* ports, proxy protocol and health check; the http part is not set
AddServiceOpts(svc) ==
    [ListenPort |-> svc.ListenPort, Protocol |-> svc.Protocol, HTTP |-> NilStr]

getTargets(input) == [i \in 1..Len(input) |-> [Type |-> input[i].Type, Server |-> input[i].ServerID]]

\* if err != nil { getServices(...)[0].HTTP; body, err := io.ReadAll(res.Body);
\*                 return errors.Wrap(err, "failed to create load balancer") }
\* the inner err is the one of ReadAll: the handler returns nil when the body
\* could be read
LoadBalancerCreateErr(e, resNil, readFails) ==
    IF spec.Services = <<>> THEN PanicErr
    ELSE IF resNil THEN PanicErr
    ELSE Wrap(IF readFails THEN <<"unexpected EOF">> ELSE NoErr,
              "failed to create load balancer")

LoadBalancerCreatePlan(now) ==
    <<Mutate("LoadBalancer.Create", ApplyDefaultLabels(spec.Labels, now), <<>>)>>

LoadBalancerCreate ==
    /\ kind = "LoadBalancer" /\ MayRun("Create")
    /\ \E saveOK \in BOOLEAN, now \in Clock, resNil \in BOOLEAN, readFails \in BOOLEAN :
        LET plan == LoadBalancerCreatePlan(now)
        IN  \E f \in 0..Len(plan) :
                /\ (resNil \/ readFails) => (f > 0 /\ spec.Services # <<>>)
                /\ ~(resNil /\ readFails)
                /\ CreateWith(plan, f, "call", saveOK, "failed to save load balancer status",
                              [type |-> spec.Type, algorithm |-> spec.Algorithm,
                               public |-> spec.PublicInterface,
                               nets |-> IF spec.NetworkID = NilRef THEN <<>>
                                        ELSE <<spec.NetworkID>>,
                               services |-> getServices(spec.Services),
                               targets |-> getTargets(spec.Targets)],
                              LoadBalancerCreateErr(PlanErr(plan, f, "call"), resNil, readFails),
                              {})

updateType(target) ==
    <<Async("LoadBalancer.ChangeType", target.Type,
            <<"failed to start update load balancer type">>,
            <<"failed to update load balancer type">>)>>

updatePublicInterface(target) ==
    <<Async(IF target.PublicInterface THEN "LoadBalancer.EnablePublicInterface"
            ELSE "LoadBalancer.DisablePublicInterface", 0,
            <<"failed to trigger public interface update">>,
            <<"failed to update public interface">>)>>

changeAlgorithm(target) ==
    <<Async("LoadBalancer.ChangeAlgorithm", target.Algorithm,
            <<"failed to start change algorithm">>, <<"failed to change algorithm">>)>>

\* faulty variant: the target network is attached before the old ones are
\* detached
changeNetwork_AttachFirst(loadBalancer, target) ==
    (IF target.NetworkID = NilRef THEN <<>>
     ELSE <<Async("LoadBalancer.AttachToNetwork", target.NetworkID,
                  <<"failed to trigger removal from network">>,
                  <<"failed to remove from network">>)>>)
    \o [i \in 1..Len(loadBalancer.nets) |->
        Async("LoadBalancer.DetachFromNetwork", loadBalancer.nets[i],
              <<"failed to trigger removal from network">>,
              <<"failed to remove from network">>)]

\* detach from every network the provider reports, then attach to the target
changeNetwork(loadBalancer, target) ==
    [i \in 1..Len(loadBalancer.nets) |->
        Async("LoadBalancer.DetachFromNetwork", loadBalancer.nets[i],
              <<"failed to trigger removal from network">>,
              <<"failed to remove from network">>)]
    \o (IF target.NetworkID = NilRef THEN <<>>
        ELSE <<Async("LoadBalancer.AttachToNetwork", target.NetworkID,
                     <<"failed to trigger removal from network">>,
                     <<"failed to remove from network">>)>>)

\* faulty variant: the target services are added before the old ones are deleted
updateServices_AddsFirst(loadBalancer, target) ==
    [i \in 1..Len(target.Services) |->
        Async("LoadBalancer.AddService", AddServiceOpts(target.Services[i]),
              <<"failed to start add service">>, <<"failed to add service">>)]
    \o [i \in 1..Len(loadBalancer.services) |->
        Async("LoadBalancer.DeleteService", loadBalancer.services[i].ListenPort,
              <<"failed to trigger service deletion">>, <<"failed to delete service">>)]

\* delete every service the provider reports, then add every target service
updateServices(loadBalancer, target) ==
    [i \in 1..Len(loadBalancer.services) |->
        Async("LoadBalancer.DeleteService", loadBalancer.services[i].ListenPort,
              <<"failed to trigger service deletion">>, <<"failed to delete service">>)]
    \o [i \in 1..Len(target.Services) |->
        Async("LoadBalancer.AddService", AddServiceOpts(target.Services[i]),
              <<"failed to start add service">>, <<"failed to add service">>)]

\* func updateTargets(...) error { return nil }
updateTargets(loadBalancer, target) == <<>>

\* the load balancer returned by GetByID and the stored parameters are used
\* without a nil check
LoadBalancerUpdatePlan(now) ==
    <<LookupUnchecked("LoadBalancer.GetByID", atProvider.ID, ~Found,
                      <<"failed to get placement group">>)>>
    \o (IF ~Found THEN <<PanicStep>>
        ELSE LET loadBalancer == prov.res[atProvider.ID]
                 current      == atProvider.params
                 target       == spec
             IN  <<Mutate("LoadBalancer.Update", ApplyDefaultLabels(target.Labels, now),
                          <<"failed to perform load balancer update">>)>>
                 \o (IF ~atProvider.present THEN <<PanicStep>>
                     ELSE (IF target.Type # current.Type THEN updateType(target) ELSE <<>>)
                       \o (IF target.PublicInterface # current.PublicInterface
                           THEN updatePublicInterface(target) ELSE <<>>)
                       \o (IF target.Algorithm # current.Algorithm
                           THEN changeAlgorithm(target) ELSE <<>>)
                       \o (IF PtrNotEqual(target.NetworkID, current.NetworkID)
                           THEN changeNetwork(loadBalancer, target) ELSE <<>>)
                       \o (IF target.Services # current.Services
                           THEN updateServices(loadBalancer, target) ELSE <<>>)
                       \o (IF target.Targets # current.Targets
                           THEN updateTargets(loadBalancer, target) ELSE <<>>)))

\* cr.Status.AtProvider.LoadBalancerParameters = &target
LoadBalancerApplied == spec

LoadBalancerUpdate ==
    /\ kind = "LoadBalancer" /\ MayRun("Update")
    /\ \E fm \in FailModes, late \in BOOLEAN, saveOK \in BOOLEAN, now \in Clock :
        \E plan \in {LoadBalancerUpdatePlan(now)} :
            \E f \in 0..Len(plan) :
                UpdateWith(plan, f, fm, late, saveOK, "failed to save load balancer status",
                           LoadBalancerApplied)

LoadBalancerDelete ==
    /\ kind = "LoadBalancer" /\ MayRun("Delete")
    /\ LET plan == <<Mutate("LoadBalancer.Delete", atProvider.ID,
                            <<"failed to delete load balancer">>)>>
       IN  \E f \in 0..Len(plan) : DeleteWith(plan, f, "call", FALSE)

(***************************************************************************)
(* pkg/hcloud: WaitForActionCompletion followed step by step inside a pass *)
(* that awaits the actions of its calls.  Time is counted in ticks of one  *)
(* second, from the invocation of the awaiter.                             *)
(***************************************************************************)
MaxJitter  == 1      \* ticks by which time.Sleep may overshoot its duration
MaxLatency == 1      \* ticks one poll round trip may take

Second == 1              \* time.Second
Minute == 60 * Second    \* time.Minute

\* the provider's action in a status; an action in error carries a code and
\* a message
ActionOf(status) ==
    [Status       |-> status,
     ErrorCode    |-> IF status = "error" THEN "action_failed" ELSE "",
     ErrorMessage |-> IF status = "error" THEN "Action failed" ELSE ""]

\* if len(timeout) == 0 { timeout = []time.Duration{time.Minute} }; timeout[0]
TimeoutOf(timeout) == IF timeout = <<>> THEN Minute ELSE timeout[1]

\* faulty variant: a nil action is waited for like any other
NilReturns_Never(handle) == FALSE

\* if action == nil { return nil }; a handle is "nil" or "action" ("none"
\* when the call returned an error)
NilReturns(handle) == handle = "nil"

\* faulty variant: the deadline is tested with "not before"
TimedOut_AtDeadline(now, timeoutTime) == now >= timeoutTime

\* faulty variant: the deadline is never tested
TimedOut_Never(now, timeoutTime) == FALSE

\* now.After(timeoutTime); startTime is tick 0
TimedOut(now, timeoutTime) == now > timeoutTime

\* faulty variant: the round trip does not look at the context
GetByIDErr_IgnoresContext(cancelled, fails) ==
    IF fails THEN <<"api error">> ELSE NoErr

\* error of one c.Client.Action.GetByID(ctx, action.ID) round trip: a
\* cancelled context fails the request
GetByIDErr(cancelled, fails) ==
    IF cancelled THEN <<"context canceled">>
    ELSE IF fails THEN <<"api error">>
    ELSE NoErr

\* faulty variant: an action in error is polled again
AfterPoll_ErrorIgnored(err, status) ==
    IF err # NoErr THEN [ret |-> TRUE, err |-> err]
    ELSE IF status.Status = "success" THEN [ret |-> TRUE, err |-> NoErr]
    ELSE [ret |-> FALSE, err |-> NoErr]

\* the loop body after the round trip: return err; return "code: message"
\* on status error; break on status success; otherwise go round again
AfterPoll(err, status) ==
    IF err # NoErr THEN [ret |-> TRUE, err |-> err]
    ELSE IF status.Status = "error"
    THEN [ret |-> TRUE, err |-> <<status.ErrorCode \o ": " \o status.ErrorMessage>>]
    ELSE IF status.Status = "success" THEN [ret |-> TRUE, err |-> NoErr]
    ELSE [ret |-> FALSE, err |-> NoErr]

\* the passes followed: the call sequences of the helpers that await
AwaitedPlans ==
    { updateServerAttachment(TRUE, <<[ServerID |-> 11]>>, <<>>),
      updateServices([services |-> <<Svc(80, NilStr)>>], [Services |-> <<Svc(443, NilStr)>>]) }

\* a pass is about to issue the first call of plan; no pass runs when the
\* plan is empty
AwaiterStart(plan) ==
    /\ pass = [plan |-> plan, i |-> 1, pc |-> IF plan = <<>> THEN "done" ELSE "call",
               calls |-> <<>>, err |-> NoErr]
    /\ await = [handle |-> "none", elapsed |-> 0, polls |-> 0, lastPoll |-> "none"]
    /\ action = ActionOf("running")
    /\ ctx = [cancelled |-> FALSE, since |-> 0, calls |-> 0]

\* the awaiter has returned err to the helper that called it
Returned(err) ==
    LET s == pass.plan[pass.i] IN
    IF err # NoErr THEN [pass EXCEPT !.pc = "done", !.err = s.ww \o err]
    ELSE IF pass.i = Len(pass.plan) THEN [pass EXCEPT !.pc = "done"]
    ELSE [pass EXCEPT !.pc = "call", !.i = @ + 1]

\* the elapsed time is followed up to here
Horizon == Minute + 2 * (Second + MaxJitter + MaxLatency)

\* action, _, err := c.hcloud.Client.<call>(ctx, ...); if err != nil { return wrapped }
PassCall ==
    /\ pass.pc = "call"
    /\ \E o \in {"err", "nil", "action"} :
        LET s == pass.plan[pass.i] IN
        /\ pass' = IF o = "err"
                   THEN [pass EXCEPT !.pc = "done", !.err = s.w \o <<"api error">>,
                                     !.calls = Append(@, s.c)]
                   ELSE [pass EXCEPT !.pc = "enter", !.calls = Append(@, s.c)]
        /\ await' = [handle |-> IF o = "err" THEN "none" ELSE o,
                     elapsed |-> 0, polls |-> 0, lastPoll |-> "none"]
        /\ action' = ActionOf("running")
    /\ UNCHANGED <<ctx, controllerVars, convVars, upsertVars>>

\* WaitForActionCompletion is entered: nil check, startTime, timeoutTime
AwaitEnter ==
    /\ pass.pc = "enter"
    /\ pass' = IF NilReturns(await.handle) THEN Returned(NoErr)
               ELSE [pass EXCEPT !.pc = "sleep"]
    /\ UNCHANGED <<await, action, ctx, controllerVars, convVars, upsertVars>>

\* time.Sleep(time.Second)
AwaitSleep ==
    /\ pass.pc = "sleep"
    /\ await.elapsed <= Horizon
    /\ \E j \in 0..MaxJitter :
        /\ await' = [await EXCEPT !.elapsed = @ + Second + j]
        /\ ctx' = IF ctx.cancelled THEN [ctx EXCEPT !.since = @ + Second + j] ELSE ctx
    /\ pass' = [pass EXCEPT !.pc = "poll"]
    /\ UNCHANGED <<action, controllerVars, convVars, upsertVars>>

\* now := time.Now(); the deadline test; the round trip; the status tests
AwaitPoll ==
    /\ pass.pc = "poll"
    /\ IF TimedOut(await.elapsed, TimeoutOf(<<>>))
       THEN /\ pass' = Returned(<<"action timed out">>)
            /\ UNCHANGED <<await, ctx>>
       ELSE \E l \in 0..MaxLatency, fails \in BOOLEAN :
            LET e   == GetByIDErr(ctx.cancelled, fails)
                out == AfterPoll(e, action)
            IN  /\ fails => ~ctx.cancelled
                /\ await' = [await EXCEPT !.elapsed = @ + l, !.polls = @ + 1,
                                          !.lastPoll = IF e # NoErr THEN "failed"
                                                       ELSE action.Status]
                /\ ctx' = IF ctx.cancelled THEN [ctx EXCEPT !.since = @ + l] ELSE ctx
                /\ pass' = IF out.ret THEN Returned(out.err)
                           ELSE [pass EXCEPT !.pc = "sleep"]
    /\ UNCHANGED <<action, controllerVars, convVars, upsertVars>>

\* the provider finishes the action
ActionResolves ==
    /\ pass.pc \in {"enter", "sleep", "poll"}
    /\ action.Status = "running"
    /\ \E status \in {"success", "error"} : action' = ActionOf(status)
    /\ UNCHANGED <<pass, await, ctx, controllerVars, convVars, upsertVars>>

\* the context of the pass is cancelled while the awaiter waits
ContextCancelled ==
    /\ pass.pc \in {"sleep", "poll"}
    /\ ~ctx.cancelled
    /\ ctx' = [cancelled |-> TRUE, since |-> 0, calls |-> Len(pass.calls)]
    /\ UNCHANGED <<pass, await, action, controllerVars, convVars, upsertVars>>

(***************************************************************************)
(* pkg/hcloud: Duration, the wrapper of an elapsed time that is written to *)
(* JSON in the duration grammar.  Durations are whole seconds here.        *)
(***************************************************************************)
\* time.Duration.String for whole seconds: "0s", "15s", "1m0s", "1h1m1s"
DurationString(d) ==
    LET secs == d \div Second
        h    == secs \div 3600
        m    == (secs % 3600) \div 60
        sec  == secs % 60
    IN  (IF h > 0 THEN FormatInt(h) \o "h" ELSE "")
        \o (IF h > 0 \/ m > 0 THEN FormatInt(m) \o "m" ELSE "")
        \o FormatInt(sec) \o "s"

\* faulty variant: the elapsed time is written as a raw integer
MarshalJSON_RawInteger(d) == FormatInt(d)

\* Duration.MarshalJSON: the duration string as a JSON string
MarshalJSON(d) == "\"" \o DurationString(d) \o "\""

\* json.Marshal of ExampleJSON{Name, Duration *Duration}; a nil pointer is null
MarshalExampleJSON(v) ==
    "{\"name\":\"" \o v.Name \o "\",\"duration\":"
    \o (IF v.Duration = <<>> THEN "null" ELSE MarshalJSON(v.Duration[1])) \o "}"

\* faulty variant: every unit counts as seconds
UnitOf_AllSeconds(ch) ==
    IF ch \in {"h", "m", "s"} THEN Second ELSE 0

\* the unit of a duration string by its letter; 0 for an unknown unit
UnitOf(ch) ==
    CASE ch = "h" -> 60 * Minute
      [] ch = "m" -> Minute
      [] ch = "s" -> Second
      [] OTHER    -> 0

\* the duration grammar from position i on: decimal numbers, each followed
\* by its unit; num is <<>> or the number read so far, acc the sum
RECURSIVE ParseFrom(_, _, _, _)
ParseFrom(s, i, num, acc) ==
    IF i > Len(s)
    THEN IF num = <<>> THEN [d |-> acc, err |-> NoErr]
         ELSE [d |-> 0, err |-> <<"time: missing unit in duration">>]
    ELSE LET ch == SubSeq(s, i, i) IN
         IF \E n \in 0..9 : Digits[n + 1] = ch
         THEN LET n == CHOOSE n \in 0..9 : Digits[n + 1] = ch
              IN  ParseFrom(s, i + 1, <<(IF num = <<>> THEN 0 ELSE num[1]) * 10 + n>>, acc)
         ELSE IF num = <<>>
         THEN [d |-> 0, err |-> <<"time: invalid duration">>]
         ELSE IF UnitOf(ch) = 0
         THEN [d |-> 0, err |-> <<"time: unknown unit in duration">>]
         ELSE ParseFrom(s, i + 1, <<>>, acc + num[1] * UnitOf(ch))

\* time.ParseDuration for durations of whole seconds: "0" is zero, the empty
\* string is no duration
ParseDuration(s) ==
    IF s = "0" THEN [d |-> 0, err |-> NoErr]
    ELSE IF s = "" THEN [d |-> 0, err |-> <<"time: invalid duration">>]
    ELSE ParseFrom(s, 1, <<>>, 0)

\* Duration.UnmarshalJSON: a JSON string is parsed as a duration string
UnmarshalJSON(b) ==
    IF Len(b) >= 2 /\ SubSeq(b, 1, 1) = "\"" /\ SubSeq(b, Len(b), Len(b)) = "\""
    THEN ParseDuration(SubSeq(b, 2, Len(b) - 1))
    ELSE [d |-> 0, err |-> <<"invalid duration">>]

\* json.Unmarshal into ExampleJSON of {"name":"simple","duration":<value>};
\* null leaves the pointer nil, an error of the duration ends the decoding
UnmarshalExampleJSON(text) ==
    LET head  == "{\"name\":\"simple\",\"duration\":"
        value == SubSeq(text, Len(head) + 1, Len(text) - 1)
        dur   == UnmarshalJSON(value)
    IN  IF value = "null"
        THEN [v |-> [Name |-> "simple", Duration |-> <<>>], err |-> NoErr]
        ELSE IF dur.err # NoErr
        THEN [v |-> [Name |-> "simple", Duration |-> <<>>], err |-> dur.err]
        ELSE [v |-> [Name |-> "simple", Duration |-> <<dur.d>>], err |-> NoErr]

(***************************************************************************)
(* The conversions applied to inputs of their own                          *)
(***************************************************************************)
\* the rules converted
RuleArgs ==
    [Direction : {"in", "out"}, Protocol : {"tcp", "udp", "icmp"},
     TargetIPs : {<<"10.0.0.0/24">>, <<"10.0.0.5/24">>,
                  <<"192.168.0.0/16", "10.0.0.0/24">>, <<"10.0.0.0/24", "10.0.0.0">>},
     Description : {NilStr, "web"},
     Port : {<<>>, <<[All |-> FALSE, Start |-> 80, End |-> NilRef]>>,
             <<[All |-> FALSE, Start |-> 80, End |-> 90]>>}]

\* s := port.String()
ApplyString ==
    /\ fn = "FirewallPort.String" /\ result = <<>>
    /\ result' = <<String(arg)>>
    /\ UNCHANGED <<fn, arg, controllerVars, awaiterVars, upsertVars>>

\* rules, err := getFirewallRules(input): the first rule that does not
\* convert ends the loop with (nil, err)
ApplyGetFirewallRules ==
    /\ fn = "getFirewallRules" /\ result = <<>>
    /\ result' = <<IF getFirewallRulesOk(arg)
                THEN [rules |-> getFirewallRules(arg), err |-> NoErr]
                ELSE [rules |-> <<>>,
                      err |-> <<"error parsing firewall cidr", "invalid CIDR address">>]>>
    /\ UNCHANGED <<fn, arg, controllerVars, awaiterVars, upsertVars>>

\* b, err := json.Marshal(v)
ApplyMarshal ==
    /\ fn = "json.Marshal" /\ result = <<>>
    /\ result' = <<[b |-> MarshalExampleJSON(arg), err |-> NoErr]>>
    /\ UNCHANGED <<fn, arg, controllerVars, awaiterVars, upsertVars>>

\* err := json.Unmarshal([]byte(input), &s)
ApplyUnmarshal ==
    /\ fn = "json.Unmarshal" /\ result = <<>>
    /\ result' = <<UnmarshalExampleJSON(arg)>>
    /\ UNCHANGED <<fn, arg, controllerVars, awaiterVars, upsertVars>>

(***************************************************************************)
(* The caller and the managed reconciler                                   *)
(***************************************************************************)
Specs(k) ==
    CASE k = "PlacementGroup" -> PlacementGroupSpecs
      [] k = "Volume"         -> VolumeSpecs
      [] k = "Server"         -> ServerSpecs
      [] k = "Network"        -> NetworkSpecs
      [] k = "Firewall"       -> FirewallSpecs
      [] k = "LoadBalancer"   -> LoadBalancerSpecs

\* the Go zero value of the parameters of a kind
ZeroParams(k) ==
    CASE k = "PlacementGroup" -> [Labels |-> NoLabels, Type |-> ""]
      [] k = "Volume"         -> [Labels |-> NoLabels, ServerID |-> NilRef, Size |-> 0,
                                  Location |-> NilStr]
      [] k = "Server"         -> [Labels |-> NoLabels, PowerOn |-> FALSE,
                                  StartAfterCreate |-> FALSE, Image |-> "",
                                  ServerType |-> "", Datacenter |-> NilStr,
                                  Location |-> NilStr, FirewallIDs |-> <<>>,
                                  NetworkIDs |-> <<>>, PlacementGroupID |-> NilRef,
                                  VolumeIDs |-> <<>>, SSHKeys |-> <<>>]
      [] k = "Network"        -> [Labels |-> NoLabels, IPRange |-> "", Subnets |-> <<>>,
                                  Routes |-> <<>>]
      [] k = "Firewall"       -> [Labels |-> NoLabels, ApplyTo |-> <<>>, Rules |-> <<>>]
      [] k = "LoadBalancer"   -> [Labels |-> NoLabels, Type |-> "", Algorithm |-> "",
                                  PublicInterface |-> FALSE, NetworkID |-> NilRef,
                                  Services |-> <<>>, Targets |-> <<>>]

\* status of an instance that was never created: ID 0, parameters nil
Empty(k) == [ID |-> NoID, present |-> FALSE, params |-> ZeroParams(k)]

NoRes == [x \in {} |-> Orphan]

\* the fields of the desired spec whose edits are followed
EditedFields(k) ==
    CASE k = "PlacementGroup" -> {"Labels"}
      [] k = "Volume"         -> {"Labels", "ServerID", "Size"}
      [] k = "Server"         -> {"Labels", "PowerOn", "Image"}
      [] k = "Network"        -> {"Labels", "IPRange", "Subnets", "Routes"}
      [] k = "Firewall"       -> {"Labels", "ApplyTo", "Rules"}
      [] k = "LoadBalancer"   -> {"Labels", "Type", "Algorithm", "PublicInterface",
                                  "NetworkID", "Services", "Targets"}

\* the desired specs an instance is declared with
InitSpecs(k) ==
    CASE k = "Server" ->
            {s \in ServerSpecs :
                /\ s.Labels = NoLabels /\ s.Image = "ubuntu-22.04"
                /\ (s.FirewallIDs = <<>>) = (s.NetworkIDs = <<>>)
                /\ (s.FirewallIDs = <<>>) = (s.VolumeIDs = <<>>)
                /\ (s.FirewallIDs = <<>>) = (s.PlacementGroupID = NilRef)
                /\ (s.FirewallIDs = <<>>) = (s.SSHKeys = <<>>)
                /\ s.StartAfterCreate \/ s.PowerOn}
      [] k = "LoadBalancer" ->
            {s \in LoadBalancerSpecs :
                /\ s.Labels = NoLabels /\ s.Type = "lb11" /\ s.Algorithm = "round_robin"
                /\ s.PublicInterface /\ s.Targets = <<>>
                /\ Len(s.Services) \in {0, 2}}
      [] OTHER -> Specs(k)

\* the caller changes one field of the desired spec between two reconciles
EditSpec ==
    /\ next = "Observe" /\ ~deleting /\ edits < MaxEdits
    /\ \E s \in Specs(kind) :
        /\ Cardinality({fld \in DOMAIN s : s[fld] # spec[fld]}) = 1
        /\ \A fld \in DOMAIN s : s[fld] # spec[fld] => fld \in EditedFields(kind)
        /\ spec' = s
    /\ edits' = edits + 1
    /\ last' = NoPass(atProvider.params)
    /\ updClean' = FALSE
    /\ UNCHANGED <<awaiterVars, convVars, upsertVars, kind, sched, atProvider, prov, deleting, next, created>>

\* the caller marks the instance for removal
MarkForDeletion ==
    /\ next = "Observe" /\ ~deleting
    /\ deleting' = TRUE
    /\ last' = NoPass(atProvider.params)
    /\ updClean' = FALSE
    /\ UNCHANGED <<awaiterVars, convVars, upsertVars, kind, sched, spec, atProvider, prov, next, created, edits>>

\* the reconciler discards an instance marked for removal once Observe
\* reports that the resource does not exist
Discard ==
    /\ next = "Discard"
    /\ next' = "Gone"
    /\ atProvider' = Empty(kind)
    /\ last' = NoPass(ZeroParams(kind))
    /\ updClean' = FALSE
    /\ UNCHANGED <<awaiterVars, convVars, upsertVars, kind, sched, spec, prov, deleting, created, edits>>

InitWith(s) ==
    /\ kind \in Kinds
    /\ sched = s
    /\ spec \in InitSpecs(kind)
    /\ atProvider = Empty(kind)
    /\ prov = [next |-> 1, res |-> NoRes]
    /\ deleting = FALSE
    /\ next = "Observe"
    /\ last = NoPass(ZeroParams(kind))
    /\ created = FALSE
    /\ updClean = FALSE
    /\ edits = 0
    /\ AwaiterStart(<<>>)
    /\ fn = "none" /\ arg = <<>> /\ result = <<>>
    /\ UpsertIdle

Init == InitWith("reconciler")
InitDirect == InitWith("direct")

Next ==
    \/ PlacementGroupObserve \/ PlacementGroupCreate
    \/ PlacementGroupUpdate \/ PlacementGroupDelete
    \/ VolumeObserve \/ VolumeCreate \/ VolumeUpdate \/ VolumeDelete
    \/ ServerObserve \/ ServerCreate \/ ServerUpdate \/ ServerDelete
    \/ NetworkObserve \/ NetworkCreate \/ NetworkUpdate \/ NetworkDelete
    \/ FirewallObserve \/ FirewallCreate \/ FirewallUpdate \/ FirewallDelete
    \/ LoadBalancerObserve \/ LoadBalancerCreate
    \/ LoadBalancerUpdate \/ LoadBalancerDelete
    \/ EditSpec \/ MarkForDeletion \/ Discard

Spec == Init /\ [][Next]_vars
SpecDirect == InitDirect /\ [][Next]_vars

\* no instance is reconciled
ControllerIdle ==
    /\ kind = "Volume" /\ sched = "reconciler"
    /\ spec = ZeroParams("Volume")
    /\ atProvider = Empty("Volume")
    /\ prov = [next |-> 1, res |-> NoRes]
    /\ deleting = FALSE
    /\ next = "Gone"
    /\ last = NoPass(ZeroParams("Volume"))
    /\ created = FALSE
    /\ updClean = FALSE
    /\ edits = 0

\* a pass that awaits actions is about to issue its first call
InitAwait ==
    /\ ControllerIdle
    /\ \E plan \in AwaitedPlans : AwaiterStart(plan)
    /\ fn = "none" /\ arg = <<>> /\ result = <<>>
    /\ UpsertIdle

\* the steps of the pass and of its environment
NextAwait ==
    \/ PassCall \/ AwaitEnter \/ AwaitSleep \/ AwaitPoll
    \/ ActionResolves \/ ContextCancelled

SpecAwait == InitAwait /\ [][NextAwait]_vars

\* every call returns: a step of the pass that can be taken is taken
SpecAwaitFair ==
    SpecAwait /\ WF_vars(PassCall \/ AwaitEnter \/ AwaitSleep \/ AwaitPoll)

\* a conversion is about to be applied to one input: a port, a list of one
\* or two rules, a value holding a duration of whole seconds
InitConv ==
    /\ ControllerIdle /\ AwaiterStart(<<>>)
    /\ UpsertIdle
    /\ result = <<>>
    /\ \/ fn = "FirewallPort.String" /\ arg \in {<<>>} \cup {<<p>> : p \in FirewallPorts}
       \/ /\ fn = "getFirewallRules"
          /\ arg \in {<<r>> : r \in RuleArgs}
                 \cup {<<r1, r2>> : r1, r2 \in {r \in RuleArgs : /\ r.Protocol = "tcp"
                                                                /\ r.Port = <<>>
                                                                /\ r.Description = NilStr}}
       \/ /\ fn = "json.Marshal"
          /\ arg \in [Name : {"simple"},
                      Duration : {<<>>} \cup {<<n * Second>> :
                                                n \in {0, 15, 60, 90, 330, 3600, 3661}}]
       \/ /\ fn = "json.Unmarshal"
          /\ arg \in {"{\"name\":\"simple\",\"duration\":null}"}
                 \cup {"{\"name\":\"simple\",\"duration\":\"" \o x \o "\"}" :
                         x \in {"1m", "0s", "15s", "1m0s", "1m30s", "5m30s", "1h0m0s",
                                "1h1m1s", "60s", "90s", "1h", "0", "", "1", "m", "1x"}}

NextConv == ApplyString \/ ApplyGetFirewallRules \/ ApplyMarshal \/ ApplyUnmarshal

SpecConv == InitConv /\ [][NextConv]_vars

(***************************************************************************)
(* The drift detector applied to stored objects                            *)
(***************************************************************************)
\* the number of fields the caller has changed since the last apply
MaxEdited == 2

\* cr.IsUpToDate()
IsUpToDate ==
    CASE kind = "PlacementGroup" -> PlacementGroupIsUpToDate
      [] kind = "Volume"         -> VolumeIsUpToDate
      [] kind = "Server"         -> ServerIsUpToDate
      [] kind = "Network"        -> NetworkIsUpToDate
      [] kind = "Firewall"       -> FirewallIsUpToDate
      [] kind = "LoadBalancer"   -> LoadBalancerIsUpToDate

\* the desired specs that differ from applied in up to MaxEdited fields
EditsOf(k, applied) ==
    {s \in Specs(k) :
        LET diff == {fld \in DOMAIN s : s[fld] # applied[fld]}
        IN  diff \subseteq EditedFields(k) /\ Cardinality(diff) <= MaxEdited}

\* a stored object: either nothing was applied yet, or the parameters of the
\* last apply are stored and the desired spec was edited since
InitDrift ==
    /\ kind \in Kinds
    /\ sched = "reconciler"
    /\ \/ atProvider = Empty(kind) /\ spec \in InitSpecs(kind)
       \/ \E applied \in InitSpecs(kind) :
            /\ atProvider = [ID |-> 1, present |-> TRUE, params |-> applied]
            /\ spec \in EditsOf(kind, applied)
    /\ prov = [next |-> 1, res |-> NoRes]
    /\ deleting = FALSE
    /\ next = "Gone"
    /\ last = NoPass(atProvider.params)
    /\ created = FALSE
    /\ updClean = FALSE
    /\ edits = 0
    /\ AwaiterStart(<<>>)
    /\ fn = "IsUpToDate" /\ arg = <<>> /\ result = <<>>
    /\ UpsertIdle

\* upToDate := cr.IsUpToDate()
ApplyIsUpToDate ==
    /\ fn = "IsUpToDate" /\ result = <<>>
    /\ result' = <<IsUpToDate>>
    /\ UNCHANGED <<fn, arg, controllerVars, awaiterVars, upsertVars>>

SpecDrift == InitDrift /\ [][ApplyIsUpToDate]_vars

(***************************************************************************)
(* Properties                                                              *)
(***************************************************************************)
CreateCalls == {"PlacementGroup.Create", "Volume.Create", "Server.Create",
                "Network.Create", "Firewall.Create", "LoadBalancer.Create"}
UpdateCalls == {"PlacementGroup.Update", "Volume.Update", "Server.Update",
                "Network.Update", "Firewall.Update", "LoadBalancer.Update"}

\* the calls that carry the merged labels
LabelCalls == CreateCalls \cup UpdateCalls

\* a call the provider accepted and whose action, if any, was awaited to success
Confirmed(call) == call.r = "ok" /\ call.aw \in {"none", "success"}

\* the last pass is a Create / Update / Delete
Mutator == last.op \in {"Create", "Update", "Delete"}

\* C1: the persisted providerID is set if and only if a provider create has
\* succeeded and no successful delete has followed it.
C1_ProviderIDIffCreated ==
    (atProvider.ID # NoID) <=> created

\* the calls of an Update that apply a field of lastApplied at the provider
AppliedBy(fld) ==
    CASE fld = "Labels"          -> UpdateCalls
      [] fld = "ServerID"        -> {"Volume.Detach", "Volume.AttachWithOpts"}
      [] fld = "Size"            -> {"Volume.Resize"}
      [] fld = "PowerOn"         -> {"Server.Poweron", "Server.Poweroff"}
      [] fld = "IPRange"         -> {"Network.ChangeIPRange"}
      [] fld = "ApplyTo"         -> {"Firewall.RemoveResources", "Firewall.ApplyResources"}
      [] fld = "Rules"           -> {"Firewall.SetRules"}
      [] fld = "Type"            -> {"LoadBalancer.ChangeType"}
      [] fld = "Algorithm"       -> {"LoadBalancer.ChangeAlgorithm"}
      [] fld = "PublicInterface" -> {"LoadBalancer.EnablePublicInterface",
                                     "LoadBalancer.DisablePublicInterface"}
      [] fld = "NetworkID"       -> {"LoadBalancer.DetachFromNetwork",
                                     "LoadBalancer.AttachToNetwork"}
      [] fld = "Services"        -> {"LoadBalancer.DeleteService", "LoadBalancer.AddService"}
      [] OTHER                   -> {}

\* C2: a field of lastApplied that an Update has changed was applied at the
\* provider by a call of that Update which was accepted and, when it returned
\* an action, awaited to success.
C2_AppliedOnlyWhenConfirmed ==
    (last.op = "Update")
        => \A fld \in DOMAIN atProvider.params :
              (atProvider.params[fld] # last.before[fld])
                  => \E i \in 1..Len(last.calls) :
                        /\ last.calls[i].c \in AppliedBy(fld)
                        /\ Confirmed(last.calls[i])

Unconditional ==
    UpdateCalls
    \cup {"Firewall.RemoveResources", "Firewall.ApplyResources", "Firewall.SetRules"}

\* the calls gated by a comparison of two *int64: issued again while the
\* desired spec declares the reference
PointerGated ==
    (IF kind = "Volume" /\ spec.ServerID # NilRef
     THEN {"Volume.Detach", "Volume.AttachWithOpts"} ELSE {})
    \cup (IF kind = "LoadBalancer" /\ spec.NetworkID # NilRef
          THEN {"LoadBalancer.DetachFromNetwork", "LoadBalancer.AttachToNetwork"} ELSE {})

C4_FailedCallReturnsError ==
    (Mutator /\ Failed(last.calls) # <<>>) => last.err # NoErr

\* C5 as stated: the labels sent to the provider carry the system value of
\* the provider-identity key, whatever the caller declared.
C5_SystemKeysWin ==
    Mutator
        => \A i \in 1..Len(last.calls) :
              last.calls[i].c \in LabelCalls
                  => /\ ProviderLabel \in DOMAIN last.calls[i].a
                     /\ last.calls[i].a[ProviderLabel] = Provider

\* C5: the labels sent to the provider hold both system keys; a system key
\* has the system value unless the caller declares that key, and every
\* caller entry is passed on with the caller's value.
C5_CallerEntriesWin ==
    Mutator
        => \A i \in 1..Len(last.calls) :
              last.calls[i].c \in LabelCalls
                  => LET sent == last.calls[i].a IN
                     /\ DOMAIN sent = DOMAIN spec.Labels \cup {ProviderLabel, GeneratedDateTime}
                     /\ \A k \in DOMAIN spec.Labels : sent[k] = spec.Labels[k]
                     /\ ProviderLabel \notin DOMAIN spec.Labels => sent[ProviderLabel] = Provider
                     /\ GeneratedDateTime \notin DOMAIN spec.Labels
                            => \E t \in Clock : sent[GeneratedDateTime] = FormatInt(t)

\* labels whose provider-identity key the caller declares have been sent
C5_Witness ==
    /\ Mutator
    /\ ProviderLabel \in DOMAIN spec.Labels
    /\ \E i \in 1..Len(last.calls) :
          last.calls[i].c \in LabelCalls /\ last.calls[i].r = "ok"

\* an Observe of a volume that exists, with a desired size below the stored one
ShrinkObserved ==
    /\ kind = "Volume" /\ last.op = "Observe" /\ last.exists
    /\ atProvider.present
    /\ spec.Size < atProvider.params.Size

VolumeUpdated ==
    kind = "Volume" /\ last.op = "Update" /\ last.before.Size > 0

\* C7: an Update with a desired size below the lastApplied size issues no
\* resize and returns an error only when a provider call, the lookup or the
\* status save failed; a resize is issued only when the desired size is
\* above the lastApplied size, and every such Update that returns without
\* error has issued one, for the desired size.
C7_ResizeOnlyGrows ==
    VolumeUpdated
        => LET resizes == SelectSeq(last.calls, LAMBDA x : x.c = "Volume.Resize") IN
           /\ spec.Size <= last.before.Size => resizes = <<>>
           /\ (spec.Size < last.before.Size /\ last.err # NoErr)
                  => \/ Failed(last.calls) # <<>>
                     \/ last.calls[1].r = "nil"
                     \/ last.err[1] = "failed to save status"
           /\ (spec.Size > last.before.Size /\ last.err = NoErr)
                  => /\ Len(resizes) = 1
                     /\ resizes[1].a = spec.Size
                     /\ Confirmed(resizes[1])
           /\ Len(resizes) <= 1

\* a shrinking Update has returned without error
C7_Witness ==
    /\ VolumeUpdated
    /\ spec.Size < last.before.Size
    /\ last.err = NoErr
    /\ atProvider.params.Size = spec.Size

IsServiceCall(call) == call.c \in {"LoadBalancer.DeleteService", "LoadBalancer.AddService"}

\* the service calls updateServices is to issue: the listen ports the
\* provider reports, then the desired services
ExpectedServiceCalls(reported, desired) ==
    [i \in 1..Len(reported) |-> [c |-> "LoadBalancer.DeleteService",
                                 port |-> reported[i].ListenPort]]
    \o [i \in 1..Len(desired) |-> [c |-> "LoadBalancer.AddService",
                                   port |-> desired[i].ListenPort]]

ServiceCallPort(call) ==
    IF call.c = "LoadBalancer.DeleteService" THEN call.a ELSE call.a.ListenPort

\* C8: a LoadBalancer Update whose desired services differ from lastApplied
\* issues, in this order, one delete-service per listen port the provider
\* reports and one add-service per desired service; a call is issued only
\* after the action of the one before it was awaited to success, and an
\* Update that returns without error has issued all of them.
C8_ServicesReplacedInOrder ==
    [][(/\ LoadBalancerUpdate
        /\ Found /\ atProvider.present
        /\ spec.Services # atProvider.params.Services)
          => LET issued   == SelectSeq(last'.calls, IsServiceCall)
                 expected == ExpectedServiceCalls(prov.res[atProvider.ID].services,
                                                  spec.Services)
             IN  /\ Len(issued) <= Len(expected)
                 /\ \A i \in 1..Len(issued) :
                       /\ issued[i].c = expected[i].c
                       /\ ServiceCallPort(issued[i]) = expected[i].port
                       /\ issued[i].r = "ok" => issued[i].aw # "none"
                       /\ i < Len(issued) => Confirmed(issued[i])
                 /\ last'.err = NoErr
                       => /\ Len(issued) = Len(expected)
                          /\ \A i \in 1..Len(issued) : Confirmed(issued[i])]_vars

\* two services were replaced by one: two deletes, then one add
C8_Witness ==
    /\ kind = "LoadBalancer" /\ last.op = "Update" /\ last.err = NoErr
    /\ Len(last.before.Services) = 2 /\ Len(spec.Services) = 1
    /\ Len(SelectSeq(last.calls, IsServiceCall)) = 3
    /\ SelectSeq(last.calls, IsServiceCall)[2].c = "LoadBalancer.DeleteService"
    /\ SelectSeq(last.calls, IsServiceCall)[3].c = "LoadBalancer.AddService"

\* C9: an Observe whose lookup the provider answers with "not found" (the
\* id was never set, or the resource is gone) reports that the resource
\* does not exist, returns no error and issues no mutating call.
C9_ObserveNotFound ==
    (/\ last.op = "Observe"
     /\ ~Found
     /\ Failed(last.calls) = <<>>)
        => /\ ~last.exists
           /\ last.err = NoErr
           /\ Mutations(last.calls) = <<>>
           /\ Len(last.calls) = 1 /\ last.calls[1].r = "nil"

\* an instance whose resource was deleted has been observed
C9_Witness ==
    /\ last.op = "Observe" /\ ~last.exists /\ last.err = NoErr
    /\ atProvider.ID # NoID /\ ~Found

\* the lookup that resolves a declared reference
LookupOf(name) ==
    CASE name = "datacenter"     -> "Datacenter.GetByName"
      [] name = "location"       -> "Location.GetByName"
      [] name = "firewall"       -> "Firewall.GetByID"
      [] name = "image"          -> "Image.GetByNameAndArchitecture"
      [] name = "network"        -> "Network.GetByID"
      [] name = "placementGroup" -> "PlacementGroup.GetByID"
      [] name = "serverType"     -> "ServerType.GetByName"
      [] name = "volume"         -> "Volume.GetByID"
      [] name = "server"         -> "Server.GetByID"

Declared == IF kind = "Server" THEN ServerDeclared ELSE VolumeDeclared

\* C10: in a Create of a server or a volume every mutating call (ssh key
\* upload, resource create) comes after a lookup of each declared reference
\* that found it; when a declared reference does not exist the Create
\* returns an error and has issued no mutating call.
C10_ReferencesBeforeCreate ==
    (kind \in {"Server", "Volume"} /\ last.op = "Create")
        => /\ \A i \in 1..Len(last.calls) :
                 IsMutating(last.calls[i])
                     => \A name \in Declared :
                           \E j \in 1..(i - 1) :
                              /\ last.calls[j].c = LookupOf(name)
                              /\ last.calls[j].r = "ok"
           /\ last.missing # {}
                 => /\ last.err # NoErr
                    /\ Mutations(last.calls) = <<>>

\* a server that declares ssh keys was not created for a missing reference
C10_Witness ==
    /\ kind = "Server" /\ last.op = "Create"
    /\ last.missing = {"volume"}
    /\ spec.SSHKeys # <<>>
    /\ last.err = <<"unknown volume">>

\* the teardown call a Delete issues before the provider delete call
Teardown == IF kind = "Volume" THEN "Volume.Detach" ELSE "Firewall.RemoveResources"

\* C11: a Delete of a volume or of a firewall issues the provider delete
\* call only after its teardown call (detach; remove-resources for the
\* bindings the provider reports) was accepted and its action awaited to
\* success; when the teardown fails no delete call is issued.
C11_TeardownBeforeDelete ==
    [][(VolumeDelete \/ FirewallDelete)
          => LET calls == last'.calls IN
             \A i \in 1..Len(calls) :
                calls[i].c \in {"Volume.Delete", "Firewall.Delete"}
                    => /\ \E j \in 1..(i - 1) :
                             /\ calls[j].c = Teardown
                             /\ Confirmed(calls[j])
                             /\ kind = "Firewall"
                                   => calls[j].a = prov.res[atProvider.ID].appliedTo
                       /\ \A j \in 1..(i - 1) : Failed(<<calls[j]>>) = <<>>]_vars

\* a firewall bound to a server was deleted: bindings removed, then deleted
C11_Witness ==
    /\ kind = "Firewall" /\ last.op = "Delete" /\ last.err = NoErr
    /\ Len(last.calls) = 3
    /\ last.calls[2].c = "Firewall.RemoveResources" /\ last.calls[2].a # <<>>
    /\ last.calls[3].c = "Firewall.Delete"

\* the innermost error of the pass, "" when it returned none
Cause == IF pass.err = NoErr THEN "" ELSE pass.err[Len(pass.err)]

\* the awaiter was invoked with a handle and has returned
Awaited == await.handle = "action" /\ pass.pc \in {"call", "done"}

\* C12: the awaiter invoked with a nil handle returns nil at once: it does
\* not sleep and does not poll.
C12_NilHandleReturnsAtOnce ==
    await.handle = "nil"
        => /\ pass.pc \in {"enter", "call", "done"}
           /\ await.polls = 0 /\ await.elapsed = 0
           /\ pass.err = NoErr

\* the first call of a pass returned no action and the pass went on
C12_Witness ==
    /\ await.handle = "nil" /\ pass.pc = "call" /\ pass.i = 2

\* C13: an awaiter that returns the timeout error does so at an elapsed
\* time t with timeout <= t < timeout + poll interval.
C13_TimeoutWithinOneInterval ==
    (pass.pc = "done" /\ Cause = "action timed out")
        => /\ TimeoutOf(<<>>) <= await.elapsed
           /\ await.elapsed < TimeoutOf(<<>>) + Second

\* C14: a poll that reads status error ends the wait: the awaiter returns
\* "code: message" of the action, polls no more, and has taken at most one
\* poll interval, sleep overshoot and round trip per poll made (two of each
\* when the second poll reads the error).
C14_ErrorEndsTheWait ==
    await.lastPoll = "error"
        => /\ pass.pc = "done"
           /\ pass.err = pass.plan[pass.i].ww
                         \o <<action.ErrorCode \o ": " \o action.ErrorMessage>>
           /\ Cause = "action_failed: Action failed"
           /\ await.elapsed <= await.polls * (Second + MaxJitter + MaxLatency)

\* the second poll has read status error
C14_Witness ==
    await.lastPoll = "error" /\ await.polls = 2 /\ pass.pc = "done"

\* the ways the awaiter returns
ExitSuccess == await.lastPoll = "success" /\ pass.err = NoErr
ExitError ==
    /\ await.lastPoll = "error" /\ pass.pc = "done"
    /\ Cause = action.ErrorCode \o ": " \o action.ErrorMessage
ExitTimeout ==
    /\ pass.pc = "done" /\ Cause = "action timed out"
    /\ await.lastPoll \in {"none", "running"}
    /\ await.elapsed > TimeoutOf(<<>>)
ExitPollFailed ==
    /\ await.lastPoll = "failed" /\ pass.pc = "done"
    /\ Cause \in {"api error", "context canceled"}

\* C15 as stated: with a handle the awaiter returns only when a poll has
\* read success, when a poll has read error, or when the timeout has elapsed.
C15_ThreeExits ==
    Awaited => (ExitSuccess \/ ExitError \/ ExitTimeout)

\* C15: with a handle the awaiter polls at most once per interval and
\* returns only when a poll has read success, when a poll has read error,
\* when the timeout has elapsed, or when a poll round trip has failed.
C15_FourExits ==
    /\ await.elapsed >= await.polls * Second
    /\ Awaited => (ExitSuccess \/ ExitError \/ ExitTimeout \/ ExitPollFailed)

\* a failed round trip has ended the wait after a poll that read running
C15_Witness ==
    Awaited /\ ExitPollFailed /\ Cause = "api error" /\ await.polls = 2

\* C16: once the context is cancelled during a wait, the wait ends within
\* one sleep and one round trip, the pass returns an error, and no provider
\* call is issued after the cancellation.
C16_CancelEndsTheWait ==
    ctx.cancelled
        => /\ pass.pc \in {"sleep", "poll", "done"}
           /\ pass.pc = "done" => pass.err # NoErr
           /\ Len(pass.calls) = ctx.calls
           /\ ctx.since <= Second + MaxJitter + MaxLatency

\* a wait on the first action was ended by the cancellation
C16_Witness ==
    /\ ctx.cancelled /\ pass.pc = "done" /\ Cause = "context canceled"
    /\ pass.i = 1 /\ Len(pass.plan) = 2 /\ action.Status = "running"

\* C17: the awaiter never polls more often than the timeout holds poll
\* intervals, and a pass whose steps are taken when they can be returns.
C17_PassReturns ==
    /\ [](await.polls <= TimeoutOf(<<>>) \div Second)
    /\ <>(pass.pc = "done")

\* the second action of a pass never left running and the pass returned
C17_Witness ==
    /\ pass.pc = "done" /\ pass.i = 2 /\ Cause = "action timed out"
    /\ action.Status = "running"

\* C18: the string of a firewall port is "any" when all is set or the port
\* is absent, "N" when only start N is given or start and end are both N,
\* and "N-M" when start N and end M differ: it is never another string.
C18_ThreeForms ==
    (fn = "FirewallPort.String" /\ result # <<>>)
        => \/ result[1] = "any" /\ (arg = <<>> \/ arg[1].All)
           \/ /\ arg # <<>> /\ ~arg[1].All /\ arg[1].Start # NilRef
              /\ arg[1].End \in {NilRef, arg[1].Start}
              /\ result[1] = FormatInt(arg[1].Start)
           \/ /\ arg # <<>> /\ ~arg[1].All /\ arg[1].Start # NilRef
              /\ arg[1].End \notin {NilRef, arg[1].Start}
              /\ result[1] = FormatInt(arg[1].Start) \o "-" \o FormatInt(arg[1].End)

\* the rules of a conversion that was applied
Converted == fn = "getFirewallRules" /\ result # <<>>

\* C19: a rule list whose CIDRs all parse converts rule by rule: an inbound
\* rule carries the networks of its target CIDRs, in order, as sources and
\* has no destinations, an outbound rule carries them as destinations and
\* has no sources; a list with a malformed CIDR converts to an error and to
\* no rule.
C19_DirectionDecidesTheList ==
    Converted
        => IF \A k \in 1..Len(arg) : \A i \in 1..Len(arg[k].TargetIPs) :
                  arg[k].TargetIPs[i] \in ValidCIDRs
           THEN /\ result[1].err = NoErr
                /\ Len(result[1].rules) = Len(arg)
                /\ \A k \in 1..Len(arg) :
                      LET rule == result[1].rules[k]
                          nets == IPNets(arg[k].TargetIPs)
                      IN  /\ arg[k].Direction = "in"
                                => rule.SourceIPs = nets /\ rule.DestinationIPs = <<>>
                          /\ arg[k].Direction = "out"
                                => rule.DestinationIPs = nets /\ rule.SourceIPs = <<>>
           ELSE result[1].err # NoErr /\ result[1].rules = <<>>

\* an inbound and an outbound rule were converted, one with two CIDRs
C19_Witness ==
    /\ Converted /\ Len(arg) = 2 /\ result[1].err = NoErr
    /\ arg[1].Direction = "in" /\ arg[2].Direction = "out"
    /\ arg[2].TargetIPs = <<"192.168.0.0/16", "10.0.0.0/24">>
    /\ result[1].rules[2].DestinationIPs = arg[2].TargetIPs

\* C20: a struct holding a Duration encodes without error, the duration as
\* a JSON string of hours, minutes and seconds and never as a bare number:
\* one minute encodes as "duration":"1m0s".
C20_DurationIsAString ==
    (fn = "json.Marshal" /\ result # <<>> /\ arg.Duration # <<>>)
        => /\ result[1].err = NoErr
           /\ result[1].b = "{\"name\":\"" \o arg.Name \o "\",\"duration\":\""
                            \o DurationString(arg.Duration[1]) \o "\"}"
           /\ arg.Duration[1] = Minute
                 => result[1].b = "{\"name\":\"simple\",\"duration\":\"1m0s\"}"

\* the struct with a duration of one minute was encoded
C20_Witness ==
    /\ fn = "json.Marshal" /\ result # <<>> /\ arg.Duration = <<Minute>>
    /\ result[1].b = "{\"name\":\"simple\",\"duration\":\"1m0s\"}"

\* the JSON text of the example struct with a duration string
Doc(x) == "{\"name\":\"simple\",\"duration\":\"" \o x \o "\"}"

\* duration strings as the encoding writes them
CanonicalForms == {"0s", "15s", "1m0s", "1m30s", "5m30s", "1h0m0s", "1h1m1s"}

\* C21: decoding the duration string "1m" yields 60 seconds and no error,
\* and decoding a canonical duration string and encoding the value again
\* yields the text that was decoded.
C21_DecodeThenEncode ==
    (fn = "json.Unmarshal" /\ result # <<>>)
        => /\ arg = Doc("1m")
                 => /\ result[1].err = NoErr
                    /\ result[1].v = [Name |-> "simple", Duration |-> <<60 * Second>>]
           /\ \A x \in CanonicalForms :
                 arg = Doc(x)
                     => /\ result[1].err = NoErr
                        /\ MarshalExampleJSON(result[1].v) = arg

\* "1m" was decoded
C21_Witness ==
    /\ fn = "json.Unmarshal" /\ arg = Doc("1m")
    /\ result # <<>> /\ result[1].v.Duration = <<Minute>>

\* a call named c is among the first n calls and was confirmed
ConfirmedBefore(calls, n, c) ==
    \E j \in 1..n : calls[j].c = c /\ Confirmed(calls[j])

\* C22: a Firewall Update issues apply-resources, with the whole desired
\* apply-to list, only after a remove-resources for the bindings the
\* provider reports was confirmed, issues set-rules only after the
\* apply-resources was confirmed, and changes lastApplied or returns without
\* error only when all three were confirmed.
C22_RemoveApplySetRules ==
    [][FirewallUpdate
          => LET calls == last'.calls IN
             /\ \A i \in 1..Len(calls) :
                   /\ calls[i].c = "Firewall.RemoveResources"
                         => calls[i].a = prov.res[atProvider.ID].appliedTo
                   /\ calls[i].c = "Firewall.ApplyResources"
                         => /\ calls[i].a = ToFirewallResources(spec.ApplyTo)
                            /\ ConfirmedBefore(calls, i - 1, "Firewall.RemoveResources")
                   /\ calls[i].c = "Firewall.SetRules"
                         => ConfirmedBefore(calls, i - 1, "Firewall.ApplyResources")
             /\ (atProvider' # atProvider \/ last'.err = NoErr)
                   => /\ ConfirmedBefore(calls, Len(calls), "Firewall.RemoveResources")
                      /\ ConfirmedBefore(calls, Len(calls), "Firewall.ApplyResources")
                      /\ ConfirmedBefore(calls, Len(calls), "Firewall.SetRules")
                      /\ atProvider'.params = spec]_vars

\* an Update has replaced a binding and stored the desired parameters
C22_Witness ==
    /\ kind = "Firewall" /\ last.op = "Update" /\ last.err = NoErr
    /\ Len(last.calls) = 5
    /\ last.calls[3].c = "Firewall.RemoveResources" /\ last.calls[3].a # <<>>
    /\ last.calls[4].c = "Firewall.ApplyResources" /\ last.calls[4].a # <<>>
    /\ last.calls[5].c = "Firewall.SetRules"
    /\ atProvider.params = spec /\ last.before # spec

\* an Update of some kind
AnyUpdate ==
    \/ PlacementGroupUpdate \/ VolumeUpdate \/ ServerUpdate
    \/ NetworkUpdate \/ FirewallUpdate \/ LoadBalancerUpdate

\* the provider calls that answer with action handles
ActionCalls ==
    {"Volume.Detach", "Volume.AttachWithOpts", "Volume.Resize",
     "Server.Poweron", "Server.Poweroff", "Network.ChangeIPRange",
     "Firewall.RemoveResources", "Firewall.ApplyResources", "Firewall.SetRules",
     "LoadBalancer.ChangeType", "LoadBalancer.EnablePublicInterface",
     "LoadBalancer.DisablePublicInterface", "LoadBalancer.ChangeAlgorithm",
     "LoadBalancer.DetachFromNetwork", "LoadBalancer.AttachToNetwork",
     "LoadBalancer.DeleteService", "LoadBalancer.AddService"}

\* C23: in an Update of any kind a call is issued only after every mutating
\* call before it was accepted and its action awaited to success, and the
\* action of every accepted call that returns one is awaited.  A volume
\* attach follows a confirmed detach when the provider reports a server, and
\* a load balancer attach follows a confirmed detach of every network the
\* provider reports.
C23_OneMutationAtATime ==
    [][AnyUpdate
          => LET calls == last'.calls IN
             \A j \in 1..Len(calls) :
                /\ \A i \in 1..(j - 1) : IsMutating(calls[i]) => Confirmed(calls[i])
                /\ (calls[j].c \in ActionCalls /\ calls[j].r = "ok")
                      => calls[j].aw # "none"
                /\ (calls[j].c = "Volume.AttachWithOpts"
                    /\ prov.res[atProvider.ID].server # NilRef)
                      => ConfirmedBefore(calls, j - 1, "Volume.Detach")
                /\ calls[j].c = "LoadBalancer.AttachToNetwork"
                      => \A n \in 1..Len(prov.res[atProvider.ID].nets) :
                            \E i \in 1..(j - 1) :
                               /\ calls[i].c = "LoadBalancer.DetachFromNetwork"
                               /\ calls[i].a = prov.res[atProvider.ID].nets[n]
                               /\ Confirmed(calls[i])]_vars

\* a load balancer was detached from its network and attached again
C23_Witness ==
    /\ kind = "LoadBalancer" /\ last.op = "Update"
    /\ \E j \in 2..Len(last.calls) :
          /\ last.calls[j].c = "LoadBalancer.AttachToNetwork"
          /\ last.calls[j - 1].c = "LoadBalancer.DetachFromNetwork"
          /\ Confirmed(last.calls[j - 1])

\* the fields of lastApplied other than the labels
GuardFields == DOMAIN last.before \ {"Labels"}

\* C24: every call of an Update after the label update belongs to a
\* sub-operation whose field differs between the desired spec and the
\* lastApplied the Update started with; an Update in which only the labels
\* differ issues the label update alone.
C24_SubOperationsAreGated ==
    last.op = "Update"
        => \A i \in 1..Len(last.calls) :
              (IsMutating(last.calls[i]) /\ last.calls[i].c \notin UpdateCalls)
                  => \E fld \in GuardFields :
                        /\ last.calls[i].c \in AppliedBy(fld)
                        /\ spec[fld] # last.before[fld]

\* an Observe of some kind
AnyObserve ==
    \/ PlacementGroupObserve \/ VolumeObserve \/ ServerObserve
    \/ NetworkObserve \/ FirewallObserve \/ LoadBalancerObserve

\* C26: an Update that returns an error leaves the persisted providerID and
\* lastApplied as they were, and the Observe that follows it, when its
\* lookup succeeds, reports the resource as existing and not up to date, so
\* that Update is invoked again.
C26_FailedUpdateKeepsStatus ==
    [][/\ (AnyUpdate /\ last'.err # NoErr) => atProvider' = atProvider
       /\ (AnyObserve /\ last.op = "Update" /\ last.err # NoErr /\ last'.err = NoErr)
             => /\ atProvider.params = last.before
                /\ last'.exists /\ ~last'.upToDate
                /\ next' = "Update"]_vars

\* an Update has failed after a sub-operation was confirmed
C26_Witness ==
    /\ last.op = "Update" /\ last.err # NoErr
    /\ \E i \in 1..Len(last.calls) :
          /\ IsMutating(last.calls[i]) /\ last.calls[i].c \notin UpdateCalls
          /\ Confirmed(last.calls[i])
    /\ atProvider.params = last.before
    /\ atProvider.params # spec

(***************************************************************************)
(* An instance that exists and whose desired spec was edited                *)
(***************************************************************************)
\* the provider-side resource a Create with desired spec s leaves
CreatedRes(k, s) ==
    CASE k = "PlacementGroup" -> [type |-> s.Type]
      [] k = "Volume"  -> [server |-> s.ServerID, size |-> s.Size]
      [] k = "Server"  -> [powerOn |-> s.StartAfterCreate]
      [] k = "Network" -> [ipRange |-> s.IPRange, subnets |-> s.Subnets,
                           routes |-> s.Routes]
      [] k = "Firewall" -> [appliedTo |-> ToFirewallResources(s.ApplyTo),
                            rules |-> getFirewallRules(s.Rules)]
      [] k = "LoadBalancer" ->
            [type |-> s.Type, algorithm |-> s.Algorithm, public |-> s.PublicInterface,
             nets |-> IF s.NetworkID = NilRef THEN <<>> ELSE <<s.NetworkID>>,
             services |-> getServices(s.Services),
             targets |-> getTargets(s.Targets)]

\* the desired specs a Create accepts
Creatable(k, s) ==
    CASE k = "Network" ->
            ParseCIDROk(s.IPRange) /\ AllValid(s.Subnets) /\ AllValid(s.Routes)
      [] k = "Firewall" -> getFirewallRulesOk(s.Rules)
      [] OTHER -> TRUE

\* the instance was created from a desired spec, which the status holds as
\* lastApplied, and the caller has since changed up to MaxEdited fields
InitEdited ==
    /\ kind \in Kinds
    /\ sched = "reconciler"
    /\ \E applied \in {s \in InitSpecs(kind) : Creatable(kind, s)} :
        /\ spec \in EditsOf(kind, applied)
        /\ atProvider = [ID |-> 1, present |-> TRUE, params |-> applied]
        /\ prov = [next |-> 2, res |-> Put(NoRes, 1, CreatedRes(kind, applied))]
        /\ last = NoPass(applied)
    /\ deleting = FALSE
    /\ next = "Observe"
    /\ created = TRUE
    /\ updClean = FALSE
    /\ edits = MaxEdits
    /\ AwaiterStart(<<>>)
    /\ fn = "none" /\ arg = <<>> /\ result = <<>>
    /\ UpsertIdle

NextEdited ==
    \/ PlacementGroupObserve \/ PlacementGroupUpdate
    \/ VolumeObserve \/ VolumeUpdate
    \/ ServerObserve \/ ServerUpdate
    \/ NetworkObserve \/ NetworkUpdate
    \/ FirewallObserve \/ FirewallUpdate
    \/ LoadBalancerObserve \/ LoadBalancerUpdate

SpecEdited == InitEdited /\ [][NextEdited]_vars

\* the reconciler keeps invoking the handlers, lookups come to succeed, and
\* among the Updates it invokes again and again one comes to succeed
SpecEditedFair ==
    /\ SpecEdited
    /\ WF_vars(AnyObserve /\ last'.err = NoErr)
    /\ SF_vars(AnyUpdate /\ last'.err = NoErr)

\* an Update has failed after one of its sub-operations took effect
PartialFailure ==
    /\ last.op = "Update" /\ last.err # NoErr
    /\ \E i \in 1..Len(last.calls) :
          /\ IsMutating(last.calls[i]) /\ last.calls[i].c \notin UpdateCalls
          /\ Confirmed(last.calls[i])

\* the fields of the desired spec an Update stores
ManagedFields ==
    CASE kind = "Volume"  -> {"Labels", "ServerID", "Size"}
      [] kind = "Server"  -> {"Labels", "PowerOn"}
      [] kind = "Network" -> {"Labels", "IPRange"}
      [] OTHER            -> DOMAIN spec

\* the provider-side resource has what the sub-operations of Update apply
\* for the desired spec
ProviderMatches ==
    LET r == prov.res[atProvider.ID] IN
    CASE kind = "Volume"  -> r.server = spec.ServerID /\ r.size >= spec.Size
      [] kind = "Server"  -> r.powerOn = spec.PowerOn
      [] kind = "Network" -> r.ipRange = spec.IPRange
      [] kind = "Firewall" ->
            /\ r.appliedTo = ToFirewallResources(spec.ApplyTo)
            /\ r.rules = getFirewallRules(spec.Rules)
      [] kind = "LoadBalancer" ->
            /\ r.type = spec.Type /\ r.algorithm = spec.Algorithm
            /\ r.public = spec.PublicInterface
            /\ r.nets = (IF spec.NetworkID = NilRef THEN <<>> ELSE <<spec.NetworkID>>)
            /\ Len(r.services) = Len(spec.Services)
            /\ \A i \in 1..Len(r.services) :
                  r.services[i].ListenPort = spec.Services[i].ListenPort
      [] OTHER -> TRUE

\* an Update has returned without error, lastApplied holds the desired
\* managed fields and the provider holds what Update applies for them
Converged ==
    /\ last.op = "Update" /\ last.err = NoErr
    /\ Found /\ atProvider.present
    /\ \A fld \in ManagedFields : atProvider.params[fld] = spec[fld]
    /\ ProviderMatches

ComparedFields ==
    CASE kind = "PlacementGroup" -> {"Labels"}
      [] kind = "Volume"         -> {"Labels", "ServerID", "Size"}
      [] kind = "Server"         -> {"Labels", "PowerOn"}
      [] kind = "Network"        -> {"Labels"}
      [] kind = "Firewall"       -> {"Labels", "ApplyTo", "Rules"}
      [] kind = "LoadBalancer"   -> {"Labels", "Type", "PublicInterface", "Algorithm",
                                     "NetworkID", "Services", "Targets"}

Detected == fn = "IsUpToDate" /\ result # <<>>

C28_EqualValuesAreUpToDate ==
    (/\ Detected /\ kind \in {"Volume", "LoadBalancer"}
     /\ atProvider.present
     /\ \A fld \in ComparedFields : spec[fld] = atProvider.params[fld])
        => result = <<TRUE>>

\* C29: after a Network Update that returned without error, the routes and
\* subnets of lastApplied are those lastApplied held before, its labels and
\* ip range are those of the desired spec, and the Update has issued no call
\* other than the lookup, the label update and the ip range change.
C29_RoutesAndSubnetsCarriedOver ==
    (kind = "Network" /\ last.op = "Update" /\ last.err = NoErr) =>
        /\ atProvider.params.Routes = last.before.Routes
        /\ atProvider.params.Subnets = last.before.Subnets
        /\ atProvider.params.Labels = spec.Labels
        /\ atProvider.params.IPRange = spec.IPRange
        /\ \A i \in 1..Len(last.calls) :
              last.calls[i].c \in {"Network.GetByID", "Network.Update",
                                   "Network.ChangeIPRange"}

\* a Network Update has succeeded while the desired routes differ from the
\* applied ones
C29_Witness ==
    /\ kind = "Network" /\ last.op = "Update" /\ last.err = NoErr
    /\ spec.Routes # last.before.Routes
    /\ spec.Labels # last.before.Labels

\* C30: an Observe of a Server whose desired labels and power-on flag equal
\* the applied ones reports up to date whatever else differs, issues no
\* mutating call and schedules no Update; a Server Update leaves every field
\* of lastApplied other than the labels and the power-on flag as it was.
C30_OnlyLabelsAndPowerOn ==
    [][/\ (/\ ServerObserve /\ last'.err = NoErr /\ last'.exists
           /\ spec.Labels = atProvider.params.Labels
           /\ spec.PowerOn = atProvider.params.PowerOn)
          => /\ last'.upToDate
             /\ Mutations(last'.calls) = <<>>
             /\ next' = "Observe"
       /\ ServerUpdate =>
             \A fld \in DOMAIN atProvider.params \ {"Labels", "PowerOn"} :
                 atProvider'.params[fld] = atProvider.params[fld]]_vars

\* a Server whose labels an Update has stored is observed up to date while
\* its desired image differs from the applied one
C30_Witness ==
    /\ kind = "Server" /\ last.op = "Observe" /\ last.upToDate
    /\ atProvider.params.Labels # NoLabels
    /\ spec.Image # atProvider.params.Image

\* C31: an Observe whose lookup fails returns the error of the lookup as it
\* is, has issued no call other than the lookup, leaves the stored id and
\* lastApplied and the provider as they were, and is followed by another
\* Observe: no Create, Update, Delete or discard is scheduled.
C31_FailedObserveChangesNothing ==
    [][(AnyObserve /\ last'.err # NoErr) =>
          /\ last'.err = <<"api error">>
          /\ Len(last'.calls) = 1 /\ ~IsMutating(last'.calls[1])
          /\ ~last'.exists
          /\ atProvider' = atProvider
          /\ prov' = prov
          /\ next' = "Observe"]_vars

\* the lookup of an Observe has failed for an instance that is marked for
\* removal and whose resource is live
C31_Witness ==
    /\ last.op = "Observe" /\ last.err # NoErr
    /\ Found /\ deleting
    /\ next = "Observe"

\* the error of a literal that does not convert
IsConversionErr(err) == \E i \in 1..Len(err) : err[i] = "invalid CIDR address"

\* C32: a Create or Update that returns a conversion error has issued no
\* mutating provider call.
C32_ConversionErrorBeforeAnyCall ==
    (last.op \in {"Create", "Update"} /\ IsConversionErr(last.err)) =>
        Mutations(last.calls) = <<>>

\* the steps of the Update of the kind, as planned in the current state
UpdatePlanNow ==
    CASE kind = "PlacementGroup" -> PlacementGroupUpdatePlan(Now)
      [] kind = "Volume"         -> VolumeUpdatePlan(Now)
      [] kind = "Server"         -> ServerUpdatePlan(Now)
      [] kind = "Network"        -> NetworkUpdatePlan(Now)
      [] kind = "Firewall"       -> FirewallUpdatePlan(Now)
      [] kind = "LoadBalancer"   -> LoadBalancerUpdatePlan(Now)

\* the errors a pass can return when step s fails
StepErrs(s) ==
    IF s.c = "return" THEN {}
    ELSE {s.w \o <<"api error">>}
         \cup (IF s.async THEN {s.ww \o AwaitCause(fm) : fm \in {"error", "timeout"}}
               ELSE {})

\* the last call of the pass has failed, in the call or in its await
LastCallFailed(p) ==
    /\ Len(p.calls) > 0
    /\ \/ p.calls[Len(p.calls)].r = "err"
       \/ p.calls[Len(p.calls)].aw \in {"error", "timeout"}

\* C33: the error an Update returns when one of its provider calls has
\* failed is an error no step of the Update that calls a different
\* operation can return.
C33_ErrorNamesTheOperation ==
    [][(AnyUpdate /\ LastCallFailed(last')) =>
          \A j \in 1..Len(UpdatePlanNow) :
              UpdatePlanNow[j].c # last'.calls[Len(last'.calls)].c
                  => last'.err \notin StepErrs(UpdatePlanNow[j])]_vars

\* C34: the instance has at most one live resource at the provider: no
\* create call succeeds while a resource made by an earlier create call of
\* the instance has not been deleted.
C34_AtMostOneCreate == Cardinality(DOMAIN prov.res) <= 1

\* C35: a Delete of a Volume whose lastApplied declares no server issues no
\* detach call, issues the delete call, and returns without error when the
\* delete call is accepted.
C35_DeleteOfDetachedVolume ==
    (/\ kind = "Volume" /\ last.op = "Delete"
     /\ atProvider.present /\ atProvider.params.ServerID = NilRef)
        => /\ \A i \in 1..Len(last.calls) : last.calls[i].c # "Volume.Detach"
           /\ \E i \in 1..Len(last.calls) :
                 /\ last.calls[i].c = "Volume.Delete"
                 /\ last.calls[i].r = "ok" => last.err = NoErr

(***************************************************************************)
(* A volume whose desired size is edited again and again                   *)
(***************************************************************************)
\* the number of times the caller changes the desired size
MaxSizeEdits == 2

\* the caller changes the desired size between two reconciles
EditSize ==
    /\ kind = "Volume" /\ next = "Observe" /\ ~deleting
    /\ edits < MaxSizeEdits
    /\ \E n \in 1..MaxSize :
        /\ n # spec.Size
        /\ spec' = [spec EXCEPT !.Size = n]
    /\ edits' = edits + 1
    /\ last' = NoPass(atProvider.params)
    /\ updClean' = FALSE
    /\ UNCHANGED <<awaiterVars, convVars, upsertVars, kind, sched, atProvider, prov, deleting, next, created>>

\* a volume was created from its desired spec
InitResize ==
    /\ kind = "Volume"
    /\ sched = "reconciler"
    /\ spec \in InitSpecs("Volume")
    /\ atProvider = [ID |-> 1, present |-> TRUE, params |-> spec]
    /\ prov = [next |-> 2, res |-> Put(NoRes, 1, CreatedRes("Volume", spec))]
    /\ last = NoPass(spec)
    /\ deleting = FALSE
    /\ next = "Observe"
    /\ created = TRUE
    /\ updClean = FALSE
    /\ edits = 0
    /\ AwaiterStart(<<>>)
    /\ fn = "none" /\ arg = <<>> /\ result = <<>>
    /\ UpsertIdle

\* a Volume Update in which every provider call and the status save succeed
VolumeUpdateOk == VolumeUpdate /\ last'.err = NoErr

NextResize == VolumeObserve \/ VolumeUpdateOk \/ EditSize

SpecResize == InitResize /\ [][NextResize]_vars

\* C36: every resize call a successful Volume Update issues asks for a size
\* above the size the volume has at the provider when the Update starts.
C36_ResizeAsksForMore ==
    [][VolumeUpdateOk =>
          \A i \in 1..Len(last'.calls) :
              last'.calls[i].c = "Volume.Resize"
                  => last'.calls[i].a > prov.res[atProvider.ID].size]_vars


(***************************************************************************)
(* Server Create passes of different instances uploading SSH keys          *)
(***************************************************************************)
\* the number of Server instances whose Create runs at the same time
MaxPasses == 2

Passes == 1..MaxPasses

\* a public key, as strings.Fields splits it: type, base64 body, comment
KeyAlice == <<"ssh-ed25519", "QUFB", "alice">>
KeyAliceAgain == <<"ssh-ed25519", "QUFB", "laptop">>
KeyBob == <<"ssh-ed25519", "QkJC">>
KeyNoBody == <<"ssh-ed25519">>
KeyNotBase64 == <<"ssh-ed25519", "%%%%">>

PublicKeys == {KeyAlice, KeyAliceAgain, KeyBob, KeyNoBody, KeyNotBase64}

\* the SSHKeys lists the instances declare
PublicKeyLists ==
    {<<k>> : k \in PublicKeys} \cup {<<KeyAlice, KeyAliceAgain>>, <<KeyBob, KeyAlice>>}

\* base64.StdEncoding.DecodeString
DecodeString(body) ==
    CASE body = "QUFB" -> [k |-> "AAA", err |-> NoErr]
      [] body = "QkJC" -> [k |-> "BBB", err |-> NoErr]
      [] OTHER         -> [k |-> "", err |-> <<"illegal base64 data">>]

\* generateSSHKeyFingerprint: the MD5 digest of the decoded body, written in
\* hex; the type and the comment of the key do not enter the digest
generateSSHKeyFingerprint(publicKey) ==
    IF Len(publicKey) < 2
    THEN [fingerprint |-> "", err |-> <<"bad ssh key">>]
    ELSE LET d == DecodeString(publicKey[2]) IN
         IF d.err # NoErr
         THEN [fingerprint |-> "", err |-> d.err]
         ELSE [fingerprint |-> "md5:" \o d.k, err |-> NoErr]

\* the ids of the provider's keys with this fingerprint
ByFingerprint(fingerprint) ==
    {id \in DOMAIN keys : keys[id].Fingerprint = fingerprint}

\* a pass that has not called the provider yet
UpsertStart(publicKeys) ==
    [publicKeys |-> publicKeys, i |-> 1, pc |-> "lookup", sshKeys |-> <<>>,
     creates |-> <<>>, err |-> NoErr]

\* UpsertSSHKeys: the key at hand has been obtained, go on with the next one
Obtained(u, id) ==
    [u EXCEPT !.sshKeys = Append(@, id),
              !.i = @ + 1,
              !.pc = IF u.i = Len(u.publicKeys) THEN "done" ELSE "lookup"]

\* UpsertSSHKeys returns nil, err
UpsertFailed(u, err) == [u EXCEPT !.sshKeys = <<>>, !.pc = "done", !.err = err]

\* UpsertSSHKey up to the answer of SSHKey.GetByFingerprint
GetByFingerprint(p) ==
    /\ upsert[p].pc = "lookup"
    /\ LET u == upsert[p]
           fp == generateSSHKeyFingerprint(u.publicKeys[u.i])
       IN  \/ /\ fp.err # NoErr
              /\ upsert' = [upsert EXCEPT ![p] =
                    UpsertFailed(u, <<"failed to generate fingerprint for public ssh key">>
                               \o fp.err)]
           \/ /\ fp.err = NoErr
              /\ \/ upsert' = [upsert EXCEPT ![p] = UpsertFailed(u, <<"api error">>)]
                 \/ /\ ByFingerprint(fp.fingerprint) # {}
                    /\ \E id \in ByFingerprint(fp.fingerprint) :
                         upsert' = [upsert EXCEPT ![p] = Obtained(u, id)]
                 \/ /\ ByFingerprint(fp.fingerprint) = {}
                    /\ upsert' = [upsert EXCEPT ![p].pc = "create"]
    /\ UNCHANGED <<keys, controllerVars, awaiterVars, convVars>>

\* UpsertSSHKey from SSHKey.Create on: the provider stores the key; when a key
\* with this fingerprint has been uploaded meanwhile it may also answer with
\* an error
SSHKeyCreate(p) ==
    /\ upsert[p].pc = "create"
    /\ LET u == upsert[p]
           fp == generateSSHKeyFingerprint(u.publicKeys[u.i])
           called == [u EXCEPT !.creates = Append(@, fp.fingerprint)]
       IN  \/ /\ keys' = Append(keys, [Fingerprint |-> fp.fingerprint,
                                       PublicKey |-> u.publicKeys[u.i]])
              /\ upsert' = [upsert EXCEPT ![p] = Obtained(called, Len(keys) + 1)]
           \/ /\ ByFingerprint(fp.fingerprint) # {}
              /\ keys' = keys
              /\ upsert' = [upsert EXCEPT ![p] = UpsertFailed(called, <<"api error">>)]
    /\ UNCHANGED <<controllerVars, awaiterVars, convVars>>

InitUpsert ==
    /\ ControllerIdle /\ AwaiterStart(<<>>)
    /\ fn = "none" /\ arg = <<>> /\ result = <<>>
    /\ keys \in {<<>>, <<[Fingerprint |-> generateSSHKeyFingerprint(KeyAlice).fingerprint,
                          PublicKey |-> KeyAlice]>>}
    /\ upsert \in [Passes -> {UpsertStart(l) : l \in PublicKeyLists}]

NextUpsert == \E p \in Passes : GetByFingerprint(p) \/ SSHKeyCreate(p)

SpecUpsert == InitUpsert /\ [][NextUpsert]_vars

\* the create calls issued so far for a fingerprint, over all passes
KeyCreateCalls(fingerprint) ==
    {<<p, j>> \in Passes \X (1..2) :
        j <= Len(upsert[p].creates) /\ upsert[p].creates[j] = fingerprint}

Fingerprints == {generateSSHKeyFingerprint(k).fingerprint : k \in {KeyAlice, KeyBob}}

\* C37: however the Server Create passes of different instances interleave,
\* the provider receives at most one SSH-key create call per fingerprint, and
\* the passes that obtained a key for that fingerprint obtained the same one.
C37_OneCreatePerFingerprint ==
    /\ \A f \in Fingerprints : Cardinality(KeyCreateCalls(f)) <= 1
    /\ \A p, q \in Passes : \A i \in 1..Len(upsert[p].sshKeys) :
         \A j \in 1..Len(upsert[q].sshKeys) :
            keys[upsert[p].sshKeys[i]].Fingerprint = keys[upsert[q].sshKeys[j]].Fingerprint
                => upsert[p].sshKeys[i] = upsert[q].sshKeys[j]


\* C38: after a successful LoadBalancer Update that replaced the services, the
\* provider holds the services as Create would have configured them from the
\* same desired list.
C38_UpdateConfiguresAsCreate ==
    (/\ kind = "LoadBalancer"
     /\ last.op = "Update" /\ last.err = NoErr
     /\ last.before.Services # spec.Services
     /\ Found)
        => prov.res[atProvider.ID].services = getServices(spec.Services)


AnyDelete ==
    \/ PlacementGroupDelete \/ VolumeDelete \/ ServerDelete
    \/ NetworkDelete \/ FirewallDelete \/ LoadBalancerDelete

\* C39: a stored providerID always comes with stored lastApplied parameters,
\* and every Update and Delete starts from a status that holds them.
C39_ProviderIDHasLastApplied ==
    /\ [](atProvider.ID # NoID => atProvider.present)
    /\ [][(AnyUpdate \/ AnyDelete) => (atProvider.ID # NoID /\ atProvider.present)]_vars

C39_Witness ==
    /\ last.op \in {"Update", "Delete"}
    /\ atProvider.ID # NoID /\ atProvider.present
    /\ Len(last.calls) > 0


(***************************************************************************)
(* An existing resource that somebody removes at the provider              *)
(***************************************************************************)
\* the resource is deleted at the provider by someone else than the controller
RemovedOutside ==
    /\ Found
    /\ prov' = [prov EXCEPT !.res = Drop(@, atProvider.ID)]
    /\ created' = FALSE
    /\ updClean' = FALSE
    /\ UNCHANGED <<awaiterVars, convVars, upsertVars, kind, sched, spec, atProvider,
                   deleting, next, last, edits>>

NextRemoved == AnyObserve \/ AnyUpdate \/ RemovedOutside

SpecRemoved == InitEdited /\ [][NextRemoved]_vars

\* the lookup of the Update answered (nil, nil): the resource is gone
UpdateFoundNothing ==
    /\ last.op = "Update"
    /\ Len(last.calls) >= 1 /\ last.calls[1].r = "nil"

\* C40: an Update whose lookup by the stored id finds nothing returns an
\* error, issues no mutating provider call and leaves lastApplied as it was.
C40_UpdateOfMissingResourceFails ==
    UpdateFoundNothing =>
        /\ last.err \notin {NoErr, PanicErr}
        /\ Mutations(last.calls) = <<>>
        /\ atProvider.params = last.before

====
